---- MODULE Spec2Model ----
(***************************************************************************)
(* A model of BuildCache: the two-tier cache engine (src/cache/cache.cpp), *)
(* the program wrapper (src/wrappers/program_wrapper.cpp), the command     *)
(* line front end (src/main.cpp) and the scoped file lock                  *)
(* (src/base/file_lock.hpp).                                               *)
(*                                                                         *)
(* The local cache, the remote cache and the implementation of the file    *)
(* lock are not part of the sources at hand; their operations are modelled *)
(* from the specification (sections 4.2 to 4.5) and are marked as such.    *)
(***************************************************************************)
EXTENDS Integers, Sequences, FiniteSets, TLC

VARIABLES
  local,      \* m_local_cache: hash -> slot (entry + payload files)
  remote,     \* m_remote_cache: hash -> slot
  connected,  \* m_remote_cache.is_connected()
  manifests,  \* direct mode manifests of the local cache: direct hash -> manifest
  fs,         \* the build tree: path -> file
  cfg,        \* the configuration (config::*)
  last,       \* the call that has just returned: arguments, result, what it did
  prev,       \* a summary of the call before it
  held,       \* the system's lock objects: lock path -> the process holding it
  procs       \* the concurrent processes: what each is doing, its lock objects

cacheVars == <<local, remote, connected, manifests, fs, cfg, last, prev>>
lockVars == <<held, procs>>
vars == <<local, remote, connected, manifests, fs, cfg, last, prev, held, procs>>

-----------------------------------------------------------------------------
(* Bounds and domains.                                                     *)

\* Number of distinct file contents; a content c is a file of c bytes.
MaxContent == 2

\* The per-entry size limit used when a limit is configured at all.
EntrySizeLimit == 3

Contents == 1..MaxContent
Hashes == {"h1", "h2"}
DirectHashes == {"d1"}
FileIds == {"a", "b"}
Paths == {"pa", "pb", "hdr"}

\* A file: absent, or z times compressed bytes of content c.
NoFile == [there |-> FALSE, z |-> 0, c |-> 0]
File(c) == [there |-> TRUE, z |-> 0, c |-> c]

\* comp::compress_file / comp::decompress_file: not the identity.
Compress(file) == [file EXCEPT !.z = file.z + 1]
CanDecompress(file) == file.there /\ file.z > 0
Decompress(file) == [file EXCEPT !.z = file.z - 1]

\* The size in bytes that file::get_file_info reports.
FileSize(file) == file.c

\* Exception kinds, by what the catch clauses of the code tell apart:
\*   "runtime": std::runtime_error and what derives from it,
\*   "std":     any other std::exception,
\*   "unknown": anything that is no std::exception.
\* "terminate" is std::terminate, called when an exception leaves a noexcept
\* function.
ExcKinds == {"runtime", "std", "unknown"}

\* The places where a collaborator (local cache, remote cache, file system,
\* statistics) may fail during one call.
FaultPoints ==
  {"l_lookup", "l_get1", "l_get2", "l_add", "r_connect", "r_lookup", "r_get1",
   "r_get2", "r_add", "st_rmiss", "st_rhit", "l_lookup_direct", "st_dhit",
   "st_dmiss", "hash_file", "l_add_direct", "w_find", "w_cache", "w_hooks",
   "w_lookup", "w_build_files", "w_run", "w_fallback"}

NoFaults == [p \in FaultPoints |-> "none"]

\* The fault plans of one call: no fault, or one collaborator call among
\* points fails with one kind of exception.
Plans(points) ==
  {NoFaults} \cup {[NoFaults EXCEPT ![p] = k] : p \in points, k \in ExcKinds}

\* expected_file_t per file id.
ExpectedFile(path, required) == [path |-> path, required |-> required]
ExpectedSets ==
  { ("a" :> ExpectedFile("pa", TRUE)),
    ("a" :> ExpectedFile("pa", TRUE)) @@ ("b" :> ExpectedFile("pb", FALSE)),
    ("a" :> ExpectedFile("pa", TRUE)) @@ ("b" :> ExpectedFile("pb", TRUE)) }

CompModes == {"NONE", "ALL"}

\* What a tool run leaves behind: the ids of the files it wrote, stdout,
\* stderr and the exit code.
Outcomes ==
  { [file_ids |-> <<"a">>, std_out |-> <<"o">>, std_err |-> <<>>, return_code |-> 0],
    [file_ids |-> <<"a", "b">>, std_out |-> <<>>, std_err |-> <<"e">>,
     return_code |-> 2] }

\* cache_entry_t
CacheEntry(file_ids, comp, std_out, std_err, return_code) ==
  [file_ids |-> file_ids, comp |-> comp, std_out |-> std_out,
   std_err |-> std_err, return_code |-> return_code]

CacheEntries ==
  { CacheEntry(o.file_ids, m, o.std_out, o.std_err, o.return_code) :
      m \in CompModes, o \in Outcomes }

\* A slot of a cache: nothing, or an entry with its payload files.
NoEntry == [present |-> FALSE]
Slot(entry, files) == [present |-> TRUE, entry |-> entry, files |-> files]

\* The value of the caller's return_code before a lookup
\* (program_wrapper_t::handle_command sets it first).
InitialReturnCode == 1

Range(seq) == {seq[i] : i \in 1..Len(seq)}

-----------------------------------------------------------------------------
(* The state a call works on, and the result of a call.                    *)

State ==
  [local |-> local, remote |-> remote, connected |-> connected,
   manifests |-> manifests, fs |-> fs]

\* What a call did: the calls it made to its collaborators and the messages
\* it logged, in order (tr), and the bytes it printed to stdout and stderr.
NoLog == [tr |-> <<>>, out |-> <<>>, err |-> <<>>]
Ev(log, e) == [log EXCEPT !.tr = Append(@, e)]

\* sys::print_raw_stdout, sys::print_raw_stderr
EmitStreams(log, entry) ==
  [tr |-> log.tr \o <<"stdout", "stderr">>,
   out |-> log.out \o entry.std_out,
   err |-> log.err \o entry.std_err]

Count(tr, e) == Cardinality({i \in 1..Len(tr) : tr[i] = e})
Has(tr, e) == \E i \in 1..Len(tr) : tr[i] = e

\* exc: "none", or the exception that leaves the call; ret: the value
\* returned; rc: the caller's return_code afterwards.
Result(exc, ret, rc, st, log) ==
  [exc |-> exc, ret |-> ret, rc |-> rc, st |-> st, log |-> log]

\* The result of a part of a call.
Part(exc, st, log) == [exc |-> exc, st |-> st, log |-> log]

-----------------------------------------------------------------------------
(* The local and the remote cache (specification, sections 4.4 and 4.5).   *)

\* local_cache_t::lookup: the entry of hash, if any.
LocalLookup(st, hash) == st.local[hash]

\* remote_cache_t::lookup
RemoteLookup(st, hash) == st.remote[hash]

\* get_file of either cache: the cached file, decompressed when the caller
\* says it is compressed, copied (or linked) verbatim otherwise.
GetFileOk(slot, file_id, is_compressed) ==
  /\ file_id \in DOMAIN slot.files
  /\ is_compressed => CanDecompress(slot.files[file_id])

GetFile(slot, file_id, is_compressed) ==
  IF is_compressed THEN Decompress(slot.files[file_id]) ELSE slot.files[file_id]

\* add of either cache: the payload files are copied from the expected
\* target paths, compressed when the entry says so.
CanStore(st, entry, expected_files) ==
  \A id \in Range(entry.file_ids) :
    id \in DOMAIN expected_files /\ st.fs[expected_files[id].path].there

Stored(st, entry, expected_files) ==
  Slot(entry,
       [id \in Range(entry.file_ids) |->
          IF entry.comp = "ALL"
            THEN Compress(st.fs[expected_files[id].path])
            ELSE st.fs[expected_files[id].path]])

LocalAdd(st, hash, entry, expected_files, allow_hard_links) ==
  [st EXCEPT !.local[hash] = Stored(st, entry, expected_files)]

RemoteAdd(st, hash, entry, expected_files) ==
  [st EXCEPT !.remote[hash] = Stored(st, entry, expected_files)]

\* remote_cache_t::connect: lazy and idempotent; true iff a remote cache is
\* configured and reachable.
RemoteConnect(st) == [st EXCEPT !.connected = cfg.remote_up]

\* hasher_t over the content of a file: injective on the contents at hand.
FileHash(file) == <<"hash", file.c, file.z>>

\* local_cache_t::lookup_direct: the manifest of direct_hash, if there is one
\* and every implicit input file still hashes to the recorded value.
LocalLookupDirect(st, direct_hash) ==
  LET m == st.manifests[direct_hash]
  IN  IF /\ m.present
         /\ \A p \in DOMAIN m.files :
              st.fs[p].there /\ FileHash(st.fs[p]) = m.files[p]
        THEN m
        ELSE NoEntry

\* direct_mode_manifest_t
Manifest(hash, files_with_hashes) ==
  [present |-> TRUE, hash |-> hash, files |-> files_with_hashes]

\* local_cache_t::add_direct
LocalAddDirect(st, direct_hash, manifest) ==
  [st EXCEPT !.manifests[direct_hash] = manifest]

-----------------------------------------------------------------------------
(* cache.cpp                                                               *)

\* A size computation that takes every missing expected file for an error.
MissingAny(st, expected_files) ==
  \E id \in DOMAIN expected_files : ~st.fs[expected_files[id].path].there

\* get_total_entry_size throws when a required file does not exist; the
\* exception is thrown again by value, as a plain std::exception.
MissingRequired(st, expected_files) ==
  \E id \in DOMAIN expected_files :
    expected_files[id].required /\ ~st.fs[expected_files[id].path].there

RECURSIVE SumSizes(_, _, _)
SumSizes(st, expected_files, ids) ==
  IF ids = {} THEN 0
  ELSE LET id == CHOOSE x \in ids : TRUE
       IN (IF st.fs[expected_files[id].path].there
             THEN FileSize(st.fs[expected_files[id].path])
             ELSE 0)
          + SumSizes(st, expected_files, ids \ {id})

get_total_entry_size(st, entry, expected_files) ==
  Len(entry.std_out) + Len(entry.std_err)
    + SumSizes(st, expected_files, DOMAIN expected_files)

\* The k-th get_file of a call fails at this point (creating the target
\* directory is part of it).
LocalGetPoint(i) == IF i = 1 THEN "l_get1" ELSE "l_get2"
RemoteGetPoint(i) == IF i = 1 THEN "r_get1" ELSE "r_get2"

\* A lookup that takes every cached file for uncompressed.
IsCompressedIgnored(entry) == FALSE

\* The compression flag that the lookups hand to get_file.
IsCompressed(entry) == (entry.comp = "ALL")

RECURSIVE RetrieveLocal(_, _, _, _, _, _, _)

\* A retrieval from the local cache that stops without an error at the first
\* file id that is not expected.
RetrieveLocalStoppingQuietly(st, f, slot, expected_files, allow_hard_links, i, log) ==
  IF i > Len(slot.entry.file_ids) THEN Part("none", st, log)
  ELSE
    LET file_id == slot.entry.file_ids[i]
        is_compressed == IsCompressed(slot.entry)
    IN  IF file_id \notin DOMAIN expected_files
          THEN Part("none", st, log)
        ELSE IF f[LocalGetPoint(i)] # "none"
          THEN Part(f[LocalGetPoint(i)], st, log)
        ELSE IF ~GetFileOk(slot, file_id, is_compressed)
          THEN Part("runtime", st, log)
        ELSE RetrieveLocal(
               [st EXCEPT !.fs[expected_files[file_id].path] =
                             GetFile(slot, file_id, is_compressed)],
               f, slot, expected_files, allow_hard_links, i + 1,
               Ev(log, "local.get_file"))

\* A retrieval from the local cache that removes the target files it has
\* written when it meets a file id that is not expected.
RetrieveLocalRemovingPartial(st, f, slot, expected_files, allow_hard_links, i, log) ==
  IF i > Len(slot.entry.file_ids) THEN Part("none", st, log)
  ELSE
    LET file_id == slot.entry.file_ids[i]
        is_compressed == IsCompressed(slot.entry)
        written == {expected_files[slot.entry.file_ids[j]].path : j \in 1..(i - 1)}
    IN  IF file_id \notin DOMAIN expected_files
          THEN Part("runtime",
                    [st EXCEPT !.fs = [p \in Paths |-> IF p \in written THEN NoFile
                                                                       ELSE st.fs[p]]],
                    Ev(log, "mismatch"))
        ELSE IF f[LocalGetPoint(i)] # "none"
          THEN Part(f[LocalGetPoint(i)], st, log)
        ELSE IF ~GetFileOk(slot, file_id, is_compressed)
          THEN Part("runtime", st, log)
        ELSE RetrieveLocal(
               [st EXCEPT !.fs[expected_files[file_id].path] =
                             GetFile(slot, file_id, is_compressed)],
               f, slot, expected_files, allow_hard_links, i + 1,
               Ev(log, "local.get_file"))

\* The loop of lookup_in_local_cache over cached_entry.file_ids(), from the
\* i-th file id on.
RetrieveLocal(st, f, slot, expected_files, allow_hard_links, i, log) ==
  IF i > Len(slot.entry.file_ids) THEN Part("none", st, log)
  ELSE
    LET file_id == slot.entry.file_ids[i]
        is_compressed == IsCompressed(slot.entry)
    IN  IF file_id \notin DOMAIN expected_files
          THEN Part("runtime", st, Ev(log, "mismatch"))
        ELSE IF f[LocalGetPoint(i)] # "none"
          THEN Part(f[LocalGetPoint(i)], st, log)
        ELSE IF ~GetFileOk(slot, file_id, is_compressed)
          THEN Part("runtime", st, log)
        ELSE RetrieveLocal(
               [st EXCEPT !.fs[expected_files[file_id].path] =
                             GetFile(slot, file_id, is_compressed)],
               f, slot, expected_files, allow_hard_links, i + 1,
               Ev(log, "local.get_file"))

\* A lookup in the local cache that prints the streams and sets the return
\* code as soon as it has the entry, before it retrieves the files.
lookup_in_local_cache_streams_first(st, f, hash, expected_files, allow_hard_links, return_code, log) ==
  IF f["l_lookup"] # "none"
    THEN Result(f["l_lookup"], FALSE, return_code, st, log)
  ELSE
    LET cached == LocalLookup(st, hash)
        log1 == Ev(log, "local.lookup")
    IN  IF ~cached.present THEN Result("none", FALSE, return_code, st, log1)
        ELSE
          LET got == RetrieveLocal(st, f, cached, expected_files,
                                   allow_hard_links, 1,
                                   EmitStreams(log1, cached.entry))
          IN  IF got.exc # "none"
                THEN Result(got.exc, FALSE, cached.entry.return_code, got.st, got.log)
              ELSE Result("none", TRUE, cached.entry.return_code, got.st, got.log)

\* cache_t::lookup_in_local_cache
lookup_in_local_cache(st, f, hash, expected_files, allow_hard_links, return_code, log) ==
  IF f["l_lookup"] # "none"
    THEN Result(f["l_lookup"], FALSE, return_code, st, log)
  ELSE
    LET cached == LocalLookup(st, hash)
        log1 == Ev(log, "local.lookup")
    IN  IF ~cached.present THEN Result("none", FALSE, return_code, st, log1)
        ELSE
          LET got == RetrieveLocal(st, f, cached, expected_files,
                                   allow_hard_links, 1, log1)
          IN  IF got.exc # "none"
                THEN Result(got.exc, FALSE, return_code, got.st, got.log)
              ELSE Result("none", TRUE, cached.entry.return_code, got.st,
                          EmitStreams(got.log, cached.entry))

\* The loop of lookup_in_remote_cache over cached_entry.file_ids().
RECURSIVE RetrieveRemote(_, _, _, _, _, _)
RetrieveRemote(st, f, slot, expected_files, i, log) ==
  IF i > Len(slot.entry.file_ids) THEN Part("none", st, log)
  ELSE
    LET file_id == slot.entry.file_ids[i]
        is_compressed == IsCompressed(slot.entry)
    IN  IF file_id \notin DOMAIN expected_files
          THEN Part("runtime", st, Ev(log, "mismatch"))
        ELSE IF f[RemoteGetPoint(i)] # "none"
          THEN Part(f[RemoteGetPoint(i)], st, log)
        ELSE IF ~GetFileOk(slot, file_id, is_compressed)
          THEN Part("runtime", st, log)
        ELSE RetrieveRemote(
               [st EXCEPT !.fs[expected_files[file_id].path] =
                             GetFile(slot, file_id, is_compressed)],
               f, slot, expected_files, i + 1, Ev(log, "remote.get_file"))

\* What the handler of the promotion (catch std::exception&) lets through.
PastStdHandler(kind) == IF kind = "unknown" THEN "unknown" ELSE "none"

\* A promotion that forgets what the tool wrote to stderr.
PromotedEntryWithoutStderr(cached) ==
  CacheEntry(cached.entry.file_ids, IF cfg.compress THEN "ALL" ELSE "NONE",
             cached.entry.std_out, <<>>, cached.entry.return_code)

\* A promotion that stores the entry as the remote cache delivered it.
PromotedEntryAsReceived(cached) == cached.entry

\* The entry that is added to the local cache for one found in the remote
\* cache: the same, but compressed as the local configuration says.
PromotedEntry(cached) ==
  CacheEntry(cached.entry.file_ids, IF cfg.compress THEN "ALL" ELSE "NONE",
             cached.entry.std_out, cached.entry.std_err, cached.entry.return_code)

\* A promotion that counts the remote hit whether or not the entry went into
\* the local cache.
PromoteToLocalAlwaysCounting(st, f, hash, cached, expected_files, allow_hard_links, log) ==
  IF MissingRequired(st, expected_files)
    THEN Part("none", st, Ev(Ev(log, "error"), "stats.remote_hit"))
  ELSE
    LET size == get_total_entry_size(st, cached.entry, expected_files)
        max_local_size == cfg.max_local_entry_size
    IN  IF size < max_local_size \/ max_local_size <= 0
          THEN
            LET entry == PromotedEntry(cached)
            IN  IF f["l_add"] # "none"
                  THEN Part(PastStdHandler(f["l_add"]), st, Ev(log, "error"))
                ELSE IF ~CanStore(st, entry, expected_files)
                  THEN Part("none", st, Ev(Ev(log, "error"), "stats.remote_hit"))
                ELSE IF f["st_rhit"] # "none"
                  THEN Part(PastStdHandler(f["st_rhit"]),
                            LocalAdd(st, hash, entry, expected_files, allow_hard_links),
                            Ev(Ev(log, "local.add"), "error"))
                ELSE Part("none",
                          LocalAdd(st, hash, entry, expected_files, allow_hard_links),
                          Ev(Ev(log, "local.add"), "stats.remote_hit"))
        ELSE Part("none", st, Ev(Ev(log, "warning"), "stats.remote_hit"))

\* The last part of lookup_in_remote_cache: the entry found in the remote
\* cache is added to the local cache.
PromoteToLocal(st, f, hash, cached, expected_files, allow_hard_links, log) ==
  IF MissingRequired(st, expected_files)
    THEN Part("none", st, Ev(log, "error"))
  ELSE
    LET size == get_total_entry_size(st, cached.entry, expected_files)
        max_local_size == cfg.max_local_entry_size
    IN  IF size < max_local_size \/ max_local_size <= 0
          THEN
            LET entry == PromotedEntry(cached)
            IN  IF f["l_add"] # "none"
                  THEN Part(PastStdHandler(f["l_add"]), st, Ev(log, "error"))
                ELSE IF ~CanStore(st, entry, expected_files)
                  THEN Part("none", st, Ev(log, "error"))
                ELSE IF f["st_rhit"] # "none"
                  THEN Part(PastStdHandler(f["st_rhit"]),
                            LocalAdd(st, hash, entry, expected_files, allow_hard_links),
                            Ev(Ev(log, "local.add"), "error"))
                ELSE Part("none",
                          LocalAdd(st, hash, entry, expected_files, allow_hard_links),
                          Ev(Ev(log, "local.add"), "stats.remote_hit"))
        ELSE Part("none", st, Ev(log, "warning"))

\* A remote lookup that counts a remote miss also when it cannot connect.
lookup_in_remote_cache_counting_unconnected(st, f, hash, expected_files, allow_hard_links, return_code, log) ==
  IF f["r_connect"] # "none"
    THEN Result(f["r_connect"], FALSE, return_code, st, log)
  ELSE
    LET st1 == RemoteConnect(st)
        log1 == Ev(log, "remote.connect")
    IN  IF ~st1.connected
          THEN Result("none", FALSE, return_code, st1, Ev(log1, "stats.remote_miss"))
        ELSE IF f["r_lookup"] # "none"
          THEN Result(f["r_lookup"], FALSE, return_code, st1, log1)
        ELSE
          LET cached == RemoteLookup(st1, hash)
              log2 == Ev(log1, "remote.lookup")
          IN  IF ~cached.present
                THEN IF f["st_rmiss"] # "none"
                       THEN Result(f["st_rmiss"], FALSE, return_code, st1, log2)
                       ELSE Result("none", FALSE, return_code, st1,
                                   Ev(log2, "stats.remote_miss"))
              ELSE
                LET got == RetrieveRemote(st1, f, cached, expected_files, 1, log2)
                IN  IF got.exc # "none"
                      THEN Result(got.exc, FALSE, return_code, got.st, got.log)
                    ELSE
                      LET p == PromoteToLocal(got.st, f, hash, cached, expected_files,
                                              allow_hard_links,
                                              EmitStreams(got.log, cached.entry))
                      IN  Result(p.exc, p.exc = "none", cached.entry.return_code,
                                 p.st, p.log)

lookup_in_remote_cache(st, f, hash, expected_files, allow_hard_links, return_code, log) ==
  IF f["r_connect"] # "none"
    THEN Result(f["r_connect"], FALSE, return_code, st, log)
  ELSE
    LET st1 == RemoteConnect(st)
        log1 == Ev(log, "remote.connect")
    IN  IF ~st1.connected THEN Result("none", FALSE, return_code, st1, log1)
        ELSE IF f["r_lookup"] # "none"
          THEN Result(f["r_lookup"], FALSE, return_code, st1, log1)
        ELSE
          LET cached == RemoteLookup(st1, hash)
              log2 == Ev(log1, "remote.lookup")
          IN  IF ~cached.present
                THEN IF f["st_rmiss"] # "none"
                       THEN Result(f["st_rmiss"], FALSE, return_code, st1, log2)
                       ELSE Result("none", FALSE, return_code, st1,
                                   Ev(log2, "stats.remote_miss"))
              ELSE
                LET got == RetrieveRemote(st1, f, cached, expected_files, 1, log2)
                IN  IF got.exc # "none"
                      THEN Result(got.exc, FALSE, return_code, got.st, got.log)
                    ELSE
                      LET p == PromoteToLocal(got.st, f, hash, cached, expected_files,
                                              allow_hard_links,
                                              EmitStreams(got.log, cached.entry))
                      IN  Result(p.exc, p.exc = "none", cached.entry.return_code,
                                 p.st, p.log)

\* What a handler "catch (const std::runtime_error&)" of a noexcept function
\* makes of an exception: it is logged, or the process is terminated.
CaughtAsRuntime(kind) == kind \in {"none", "runtime"}

\* A lookup that asks the remote cache first and the local cache after it.
lookup_remote_first(st, f, hash, expected_files, allow_hard_links, return_code, log) ==
  LET r == lookup_in_remote_cache(st, f, hash, expected_files, allow_hard_links,
                                  return_code, log)
  IN  IF r.exc = "none" /\ r.ret THEN r
      ELSE IF ~CaughtAsRuntime(r.exc)
        THEN Result("terminate", FALSE, r.rc, r.st, r.log)
      ELSE
        LET l == lookup_in_local_cache(
                   r.st, f, hash, expected_files, allow_hard_links, r.rc,
                   IF r.exc = "runtime" THEN Ev(r.log, "error") ELSE r.log)
        IN  IF l.exc = "none" /\ l.ret THEN l
            ELSE IF ~CaughtAsRuntime(l.exc)
              THEN Result("terminate", FALSE, l.rc, l.st, l.log)
            ELSE Result("none", FALSE, l.rc, l.st,
                        IF l.exc = "runtime" THEN Ev(l.log, "error") ELSE l.log)

\* cache_t::lookup (noexcept)
lookup(st, f, hash, expected_files, allow_hard_links, return_code, log) ==
  LET l == lookup_in_local_cache(st, f, hash, expected_files, allow_hard_links,
                                 return_code, log)
  IN  IF l.exc = "none" /\ l.ret THEN l
      ELSE IF ~CaughtAsRuntime(l.exc)
        THEN Result("terminate", FALSE, l.rc, l.st, l.log)
      ELSE
        LET r == lookup_in_remote_cache(
                   l.st, f, hash, expected_files, allow_hard_links, l.rc,
                   IF l.exc = "runtime" THEN Ev(l.log, "error") ELSE l.log)
        IN  IF r.exc = "none" /\ r.ret THEN r
            ELSE IF ~CaughtAsRuntime(r.exc)
              THEN Result("terminate", FALSE, r.rc, r.st, r.log)
            ELSE Result("none", FALSE, r.rc, r.st,
                        IF r.exc = "runtime" THEN Ev(r.log, "error") ELSE r.log)

\* A lookup_direct that does not count its misses.
lookup_direct_without_miss_count(st, f, direct_hash, expected_files, allow_hard_links, return_code, log) ==
  LET manifest == LocalLookupDirect(st, direct_hash)
      thrown ==
        IF f["l_lookup_direct"] # "none" THEN f["l_lookup_direct"]
        ELSE IF ~manifest.present THEN "runtime"
        ELSE f["st_dhit"]
  IN  IF thrown = "none"
        THEN lookup(st, f, manifest.hash, expected_files, allow_hard_links,
                    return_code, Ev(log, "stats.direct_hit"))
      ELSE IF thrown = "runtime"
        THEN Result("none", FALSE, return_code, st, log)
      ELSE Result("terminate", FALSE, return_code, st, log)

\* A lookup_direct that does not hand on the return code of the entry.
lookup_direct_keeping_return_code(st, f, direct_hash, expected_files, allow_hard_links, return_code, log) ==
  LET manifest == LocalLookupDirect(st, direct_hash)
      thrown ==
        IF f["l_lookup_direct"] # "none" THEN f["l_lookup_direct"]
        ELSE IF ~manifest.present THEN "runtime"
        ELSE f["st_dhit"]
  IN  IF thrown = "none"
        THEN LET r == lookup(st, f, manifest.hash, expected_files, allow_hard_links,
                             return_code, Ev(log, "stats.direct_hit"))
             IN  Result(r.exc, r.ret, return_code, r.st, r.log)
      ELSE IF thrown = "runtime"
        THEN IF f["st_dmiss"] # "none"
               THEN Result("terminate", FALSE, return_code, st, log)
               ELSE Result("none", FALSE, return_code, st,
                           Ev(log, "stats.direct_miss"))
      ELSE Result("terminate", FALSE, return_code, st, log)

\* cache_t::lookup_direct (noexcept)
lookup_direct(st, f, direct_hash, expected_files, allow_hard_links, return_code, log) ==
  LET manifest == LocalLookupDirect(st, direct_hash)
      thrown ==
        IF f["l_lookup_direct"] # "none" THEN f["l_lookup_direct"]
        ELSE IF ~manifest.present THEN "runtime"
        ELSE f["st_dhit"]
  IN  IF thrown = "none"
        THEN lookup(st, f, manifest.hash, expected_files, allow_hard_links,
                    return_code, Ev(log, "stats.direct_hit"))
      ELSE IF thrown = "runtime"
        THEN IF f["st_dmiss"] # "none"
               THEN Result("terminate", FALSE, return_code, st, log)
               ELSE Result("none", FALSE, return_code, st,
                           Ev(log, "stats.direct_miss"))
      ELSE Result("terminate", FALSE, return_code, st, log)

\* An add_direct that records no hash for the implicit input files.
add_direct_without_hashes(st, f, direct_hash, hash, implicit_input_files) ==
  LET unreadable == \E i \in 1..Len(implicit_input_files) :
                      ~st.fs[implicit_input_files[i]].there
      thrown ==
        IF f["hash_file"] # "none" /\ implicit_input_files # <<>>
          THEN f["hash_file"]
        ELSE IF unreadable THEN "runtime"
        ELSE f["l_add_direct"]
  IN  IF thrown = "none"
        THEN Result("none", TRUE, 0,
                    LocalAddDirect(st, direct_hash, Manifest(hash, <<>>)),
                    Ev(NoLog, "local.add_direct"))
      ELSE IF thrown = "runtime"
        THEN Result("none", TRUE, 0, st, Ev(NoLog, "error"))
      ELSE Result(thrown, FALSE, 0, st, NoLog)

\* An add_direct that skips the implicit input files it cannot hash and
\* stores a manifest of the others.
add_direct_skipping_unreadable(st, f, direct_hash, hash, implicit_input_files) ==
  LET thrown ==
        IF f["hash_file"] # "none" /\ implicit_input_files # <<>>
          THEN f["hash_file"]
        ELSE f["l_add_direct"]
      files_with_hashes ==
        [p \in {q \in Range(implicit_input_files) : st.fs[q].there} |->
           FileHash(st.fs[p])]
  IN  IF thrown = "none"
        THEN Result("none", TRUE, 0,
                    LocalAddDirect(st, direct_hash, Manifest(hash, files_with_hashes)),
                    Ev(NoLog, "local.add_direct"))
      ELSE IF thrown = "runtime"
        THEN Result("none", TRUE, 0, st, Ev(NoLog, "error"))
      ELSE Result(thrown, FALSE, 0, st, NoLog)

\* cache_t::add_direct
add_direct(st, f, direct_hash, hash, implicit_input_files) ==
  LET unreadable == \E i \in 1..Len(implicit_input_files) :
                      ~st.fs[implicit_input_files[i]].there
      thrown ==
        IF f["hash_file"] # "none" /\ implicit_input_files # <<>>
          THEN f["hash_file"]
        ELSE IF unreadable THEN "runtime"
        ELSE f["l_add_direct"]
      files_with_hashes ==
        [p \in Range(implicit_input_files) |-> FileHash(st.fs[p])]
  IN  IF thrown = "none"
        THEN Result("none", TRUE, 0,
                    LocalAddDirect(st, direct_hash, Manifest(hash, files_with_hashes)),
                    Ev(NoLog, "local.add_direct"))
      ELSE IF thrown = "runtime"
        THEN Result("none", TRUE, 0, st, Ev(NoLog, "error"))
      ELSE Result(thrown, FALSE, 0, st, NoLog)

\* A local insert step that logs what the local cache throws and goes on.
AddLocalStepCaught(st, f, hash, entry, expected_files, allow_hard_links, size) ==
  LET max_local_size == cfg.max_local_entry_size
  IN  IF ~(size < max_local_size \/ max_local_size <= 0)
        THEN Part("none", st, Ev(NoLog, "warning"))
      ELSE IF f["l_add"] # "none" \/ ~CanStore(st, entry, expected_files)
        THEN Part("none", st, Ev(NoLog, "warning"))
      ELSE Part("none",
                LocalAdd(st, hash, entry, expected_files, allow_hard_links),
                Ev(NoLog, "local.add"))

\* A local insert step that also admits an entry whose size is the limit.
AddLocalStepAdmittingLimit(st, f, hash, entry, expected_files, allow_hard_links, size) ==
  LET max_local_size == cfg.max_local_entry_size
  IN  IF ~(size <= max_local_size \/ max_local_size <= 0)
        THEN Part("none", st, Ev(NoLog, "warning"))
      ELSE IF f["l_add"] # "none" THEN Part(f["l_add"], st, NoLog)
      ELSE IF ~CanStore(st, entry, expected_files) THEN Part("runtime", st, NoLog)
      ELSE Part("none",
                LocalAdd(st, hash, entry, expected_files, allow_hard_links),
                Ev(NoLog, "local.add"))

\* The local insert step of cache_t::add: nothing catches what it throws.
AddLocalStep(st, f, hash, entry, expected_files, allow_hard_links, size) ==
  LET max_local_size == cfg.max_local_entry_size
  IN  IF ~(size < max_local_size \/ max_local_size <= 0)
        THEN Part("none", st, Ev(NoLog, "warning"))
      ELSE IF f["l_add"] # "none" THEN Part(f["l_add"], st, NoLog)
      ELSE IF ~CanStore(st, entry, expected_files) THEN Part("runtime", st, NoLog)
      ELSE Part("none",
                LocalAdd(st, hash, entry, expected_files, allow_hard_links),
                Ev(NoLog, "local.add"))

\* A remote insert step that catches std::exception only.
AddRemoteStepCatchingStd(st, f, hash, entry, expected_files, size, log) ==
  IF st.connected /\ ~cfg.read_only_remote
    THEN IF f["r_add"] = "unknown" THEN Part("unknown", st, log)
         ELSE IF f["r_add"] # "none"
           THEN Part("none", st, Ev(Ev(log, "remote.add.failed"), "warning"))
         ELSE Part("none",
                   RemoteAdd(st, hash,
                             CacheEntry(entry.file_ids, "ALL", entry.std_out,
                                        entry.std_err, entry.return_code),
                             expected_files),
                   Ev(log, "remote.add"))
    ELSE Part("none", st, log)

\* A remote insert step that also writes to a read-only remote cache.
AddRemoteStepIgnoringReadOnly(st, f, hash, entry, expected_files, size, log) ==
  LET max_remote_size == cfg.max_remote_entry_size
  IN  IF st.connected
        THEN
          IF size < max_remote_size \/ max_remote_size <= 0
            THEN
              LET remote_entry == CacheEntry(entry.file_ids, "ALL", entry.std_out,
                                             entry.std_err, entry.return_code)
              IN  IF f["r_add"] # "none" \/ ~CanStore(st, remote_entry, expected_files)
                    THEN Part("none", st, Ev(Ev(log, "remote.add.failed"), "warning"))
                    ELSE Part("none",
                              RemoteAdd(st, hash, remote_entry, expected_files),
                              Ev(log, "remote.add"))
            ELSE Part("none", st, Ev(log, "warning"))
        ELSE Part("none", st, log)

\* The remote insert step of cache_t::add: every exception is caught.
AddRemoteStep(st, f, hash, entry, expected_files, size, log) ==
  LET max_remote_size == cfg.max_remote_entry_size
  IN  IF st.connected /\ ~cfg.read_only_remote
        THEN
          IF size < max_remote_size \/ max_remote_size <= 0
            THEN
              LET remote_entry == CacheEntry(entry.file_ids, "ALL", entry.std_out,
                                             entry.std_err, entry.return_code)
              IN  IF f["r_add"] # "none" \/ ~CanStore(st, remote_entry, expected_files)
                    THEN Part("none", st, Ev(Ev(log, "remote.add.failed"), "warning"))
                    ELSE Part("none",
                              RemoteAdd(st, hash, remote_entry, expected_files),
                              Ev(log, "remote.add"))
            ELSE Part("none", st, Ev(log, "warning"))
        ELSE Part("none", st, log)

\* cache_t::add
add(st, f, hash, entry, expected_files, allow_hard_links) ==
  IF MissingRequired(st, expected_files)
    THEN Result("std", FALSE, 0, st, NoLog)
  ELSE
    LET size == get_total_entry_size(st, entry, expected_files)
        loc == AddLocalStep(st, f, hash, entry, expected_files, allow_hard_links, size)
    IN  IF loc.exc # "none" THEN Result(loc.exc, FALSE, 0, loc.st, loc.log)
        ELSE
          LET rem == AddRemoteStep(loc.st, f, hash, entry, expected_files, size, loc.log)
          IN  Result(rem.exc, TRUE, 0, rem.st, rem.log)

-----------------------------------------------------------------------------
(* The engine called through its interface. A call is one step; the caller *)
(* then takes the result (Return) before the next call is made.            *)

Configs ==
  [max_local_entry_size : {0, EntrySizeLimit},
   max_remote_entry_size : {0, EntrySizeLimit},
   compress : BOOLEAN, read_only_remote : BOOLEAN, remote_up : BOOLEAN]

\* The hash the engine is called with.
EngineHashes == {"h1"}

Install(st) ==
  /\ local' = st.local
  /\ remote' = st.remote
  /\ connected' = st.connected
  /\ manifests' = st.manifests
  /\ fs' = st.fs

Idle == [op |-> "none"]

Called(op, hash, entry, expected_files, f, r) ==
  [op |-> op, hash |-> hash, entry |-> entry, expected_files |-> expected_files,
   f |-> f, exc |-> r.exc, ret |-> r.ret, rc |-> r.rc, log |-> r.log, pre |-> State]

\* What is kept of a call once its result was taken: whether a lookup hit,
\* whether an add put the entry into the local cache.
Summary(call) ==
  IF call.op \in {"lookup", "lookup_direct"}
    THEN [op |-> call.op, ok |-> call.exc = "none" /\ call.ret]
  ELSE IF call.op \in {"add", "add_direct"}
    THEN [op |-> call.op,
          ok |-> call.exc = "none" /\ (Has(call.log.tr, "local.add")
                                        \/ Has(call.log.tr, "local.add_direct"))]
  ELSE [op |-> call.op, ok |-> TRUE]

LookupPoints ==
  {"l_lookup", "l_get1", "l_get2", "l_add", "r_connect", "r_lookup", "r_get1",
   "r_get2", "st_rmiss", "st_rhit"}
AddPoints == {"l_add", "r_add"}
DirectLookupPoints == {"l_lookup_direct", "st_dhit", "st_dmiss", "l_lookup", "l_get1"}
DirectAddPoints == {"hash_file", "l_add_direct"}

InitCaches ==
  /\ local = [h \in Hashes |-> NoEntry]
  /\ remote = [h \in Hashes |-> NoEntry]
  /\ connected = FALSE
  /\ manifests = [d \in DirectHashes |-> NoEntry]
  /\ fs = [p \in Paths |-> NoFile]
  /\ last = Idle
  /\ prev = Idle
  /\ held = <<>>
  /\ procs = <<>>

Init ==
  /\ InitCaches
  /\ cfg \in Configs

\* The caller takes the result of the call.
Return ==
  /\ last.op # "none"
  /\ last' = Idle
  /\ prev' = Summary(last)
  /\ UNCHANGED <<local, remote, connected, manifests, fs, cfg, lockVars>>

\* The tool (or anything else) writes or removes an output file. The second
\* file is there or not; what it holds is always the same.
DoWrite(contents) ==
  /\ last.op = "none"
  /\ \E p \in {"pa", "pb"}, file \in {NoFile} \cup {File(c) : c \in contents} :
       /\ p = "pb" => file.c <= 1
       /\ fs[p] # file
       /\ fs' = [fs EXCEPT ![p] = file]
  /\ last' = [op |-> "write"]
  /\ UNCHANGED <<local, remote, connected, manifests, cfg, prev, lockVars>>

\* A new process starts: its cache_t has not connected to the remote cache.
NewProcess ==
  /\ last.op = "none"
  /\ connected
  /\ connected' = FALSE
  /\ last' = [op |-> "start"]
  /\ UNCHANGED <<local, remote, manifests, fs, cfg, prev, lockVars>>

\* cache_t::clear (main.cpp, clear_cache_and_exit): the local cache is emptied.
Clear ==
  /\ last.op = "none"
  /\ local' = [h \in Hashes |-> NoEntry]
  /\ local' # local
  /\ last' = [op |-> "clear"]
  /\ UNCHANGED <<remote, connected, manifests, fs, cfg, prev, lockVars>>

DoLookup(plans) ==
  /\ last.op = "none"
  /\ \E hash \in EngineHashes, expected_files \in ExpectedSets, f \in plans,
        allow_hard_links \in {FALSE} :
       \E r \in {lookup(State, f, hash, expected_files, allow_hard_links,
                       InitialReturnCode, NoLog)} :
         /\ Install(r.st)
         /\ last' = Called("lookup", hash, NoEntry, expected_files, f, r)
  /\ UNCHANGED <<cfg, prev, lockVars>>

DoAdd(plans) ==
  /\ last.op = "none"
  /\ \E hash \in EngineHashes, entry \in CacheEntries, expected_files \in ExpectedSets,
        f \in plans, allow_hard_links \in {FALSE} :
       \E r \in {add(State, f, hash, entry, expected_files, allow_hard_links)} :
         /\ Install(r.st)
         /\ last' = Called("add", hash, entry, expected_files, f, r)
  /\ UNCHANGED <<cfg, prev, lockVars>>

\* Every collaborator works.
WriteFile == DoWrite(Contents)
CallLookup == DoLookup({NoFaults})
CallAdd == DoAdd({NoFaults})

Next == WriteFile \/ NewProcess \/ Clear \/ CallLookup \/ CallAdd \/ Return

Spec == Init /\ [][Next]_vars

\* One collaborator call may fail during a call; a plain configuration.
FaultConfigs ==
  {c \in Configs : /\ c.max_local_entry_size = 0 /\ c.max_remote_entry_size = 0
                   /\ ~c.compress /\ ~c.read_only_remote}

InitFault ==
  /\ InitCaches
  /\ cfg \in FaultConfigs

WriteOne == DoWrite({1})
FaultyLookup == DoLookup(Plans(LookupPoints))
FaultyAdd == DoAdd(Plans(AddPoints))

NextFault == WriteOne \/ NewProcess \/ Clear \/ FaultyLookup \/ FaultyAdd \/ Return

SpecFault == InitFault /\ [][NextFault]_vars

-----------------------------------------------------------------------------
(* Direct mode: the manifests of the local cache and the implicit input    *)
(* files they list. No remote cache is configured.                         *)

ImplicitInputs == {<<>>, <<"hdr">>}

DirectConfigs == {c \in FaultConfigs : ~c.remote_up}

InitDirect ==
  /\ InitCaches
  /\ cfg \in DirectConfigs

\* An implicit input file is edited or removed.
WriteInput ==
  /\ last.op = "none"
  /\ \E file \in {NoFile} \cup {File(c) : c \in Contents} :
       /\ fs["hdr"] # file
       /\ fs' = [fs EXCEPT !["hdr"] = file]
  /\ last' = [op |-> "write"]
  /\ UNCHANGED <<local, remote, connected, manifests, cfg, prev, lockVars>>

CallLookupDirect ==
  /\ last.op = "none"
  /\ \E direct_hash \in DirectHashes, expected_files \in ExpectedSets,
        f \in Plans(DirectLookupPoints), allow_hard_links \in {FALSE} :
       \E r \in {lookup_direct(State, f, direct_hash, expected_files,
                              allow_hard_links, InitialReturnCode, NoLog)} :
         /\ Install(r.st)
         /\ last' = Called("lookup_direct", direct_hash, NoEntry, expected_files, f, r)
  /\ UNCHANGED <<cfg, prev, lockVars>>

CallAddDirect ==
  /\ last.op = "none"
  /\ \E direct_hash \in DirectHashes, hash \in EngineHashes,
        implicit_input_files \in ImplicitInputs, f \in Plans(DirectAddPoints) :
       \E r \in {add_direct(State, f, direct_hash, hash, implicit_input_files)} :
         /\ Install(r.st)
         /\ last' = Called("add_direct", direct_hash, NoEntry, <<>>, f, r)
                      @@ [implicit_input_files |-> implicit_input_files,
                          preprocessor_hash |-> hash]
  /\ UNCHANGED <<cfg, prev, lockVars>>

NextDirect ==
  \/ WriteOne \/ WriteInput \/ CallAdd \/ CallAddDirect \/ CallLookupDirect
  \/ FaultyLookup \/ Return

SpecDirect == InitDirect /\ [][NextDirect]_vars

-----------------------------------------------------------------------------
(* The wrapped-tool mode: main.cpp, wrap_compiler_and_exit, and            *)
(* program_wrapper.cpp, handle_command. One invocation is one step.        *)

\* sys::run_with_prefix: what the tool does when it is run. A run that exits
\* with 0 writes every build file; a failing run writes none.
ToolSuccess(c) == [return_code |-> 0, std_out |-> <<"o">>, std_err |-> <<>>, c |-> c]
ToolFailure == [return_code |-> 2, std_out |-> <<>>, std_err |-> <<"e">>, c |-> 0]
ToolBehaviours == {ToolSuccess(c) : c \in Contents} \cup {ToolFailure}

\* The tool on its first and on its second run: the same files, but maybe
\* another exit code (an intermittent fault).
ToolRuns ==
  {<<t1, t2>> \in ToolBehaviours \X ToolBehaviours :
     t2 = t1 \/ (t2.return_code # t1.return_code /\ t2.c <= 1)}

\* The result of running the tool: exc is the exception of a failed launch.
Ran(exc, return_code, st, log) ==
  [exc |-> exc, return_code |-> return_code, st |-> st, log |-> log]

RunTool(st, fault, build_files, tool, log) ==
  IF fault # "none" THEN Ran(fault, 0, st, Ev(log, "run.failed"))
  ELSE
    Ran("none", tool.return_code,
        IF tool.return_code = 0
          THEN [st EXCEPT !.fs = [p \in Paths |->
                  IF \E id \in DOMAIN build_files : build_files[id].path = p
                    THEN File(tool.c) ELSE st.fs[p]]]
          ELSE st,
        [tr |-> Append(log.tr, "run"),
         out |-> log.out \o tool.std_out,
         err |-> log.err \o tool.std_err])

\* m_cache.lookup(hash) as handle_command calls it: the entry of the local
\* cache, if any. Whether the cache object has connected to the remote cache
\* by then is not decided by the sources at hand: both are possible.
WrapperLookup(st, hash) == st.local[hash]
WrapperConnect(st, conn) == [st EXCEPT !.connected = conn /\ cfg.remote_up]

\* The file ids of get_build_files(), in the order of the map.
FileIdList(ids) == SelectSeq(<<"a", "b">>, LAMBDA id : id \in ids)

\* An entry that is made whatever the tool returned.
NewEntryOfAnyRun(build_files, result) ==
  [made |-> TRUE,
   entry |-> CacheEntry(FileIdList(DOMAIN build_files), "NONE", result.std_out,
                        result.std_err, result.return_code)]

\* The entry handle_command makes of a run: only of one that exited with 0.
NewEntry(build_files, result) ==
  [made |-> result.return_code = 0,
   entry |-> CacheEntry(FileIdList(DOMAIN build_files), "NONE", result.std_out,
                        result.std_err, result.return_code)]

\* The result of handle_command: ret is what it returns, rc the caller's
\* return_code afterwards; looked is "hit" or "miss" once the lookup was
\* done; runs are the return codes of the runs of the tool; adds are the
\* hashes that add was called with.
Handled(ret, rc, st, log, looked, runs, adds) ==
  [ret |-> ret, rc |-> rc, st |-> st, log |-> log, looked |-> looked,
   runs |-> runs, adds |-> adds]

\* A loop that stops after the first file.
CopyCachedFirstOnly(st, f, cached, target_files, i, log) ==
  IF i > 1 \/ i > Len(cached.entry.file_ids) THEN Part("none", st, log)
  ELSE
    LET file_id == cached.entry.file_ids[i]
    IN  IF file_id \notin DOMAIN target_files
          THEN Part("std", st, Ev(log, "mismatch"))
          ELSE Part("none",
                    [st EXCEPT !.fs[target_files[file_id].path] = cached.files[file_id]],
                    Ev(log, "copy"))

\* The loop of handle_command over cached_entry.files, from the i-th on.
RECURSIVE CopyCached(_, _, _, _, _, _)
CopyCached(st, f, cached, target_files, i, log) ==
  IF i > Len(cached.entry.file_ids) THEN Part("none", st, log)
  ELSE
    LET file_id == cached.entry.file_ids[i]
    IN  IF file_id \notin DOMAIN target_files
          THEN Part("std", st, Ev(log, "mismatch"))
        ELSE IF f[LocalGetPoint(i)] # "none"
          THEN Part(f[LocalGetPoint(i)], st, log)
        ELSE CopyCached(
               [st EXCEPT !.fs[target_files[file_id].path] = cached.files[file_id]],
               f, cached, target_files, i + 1, Ev(log, "copy"))

\* A branch that forgets to hand the cached return code to the caller.
HandleHitKeepingReturnCode(st, f, cached, target_files) ==
  LET got == CopyCached(st, f, cached, target_files, 1, NoLog)
  IN  Handled(got.exc = "none", InitialReturnCode, got.st,
              EmitStreams(got.log, cached.entry), "hit", <<>>, <<>>)

\* The branch of handle_command for an entry found in the cache.
HandleHit(st, f, cached, target_files) ==
  IF f["w_build_files"] # "none"
    THEN Handled(FALSE, InitialReturnCode, st, NoLog, "hit", <<>>, <<>>)
  ELSE
    LET got == CopyCached(st, f, cached, target_files, 1, NoLog)
    IN  IF got.exc # "none"
          THEN Handled(FALSE, InitialReturnCode, got.st, got.log, "hit", <<>>, <<>>)
          ELSE Handled(TRUE, cached.entry.return_code, got.st,
                       EmitStreams(got.log, cached.entry), "hit", <<>>, <<>>)

\* The branch of handle_command for a miss.
HandleMiss(st, f, hash, build_files, allow_hard_links, tool) ==
  IF f["w_build_files"] # "none"
    THEN Handled(FALSE, InitialReturnCode, st, NoLog, "miss", <<>>, <<>>)
  ELSE
    LET result == RunTool(st, f["w_run"], build_files, tool, NoLog)
        new_entry == NewEntry(build_files, tool)
    IN  IF result.exc # "none"
          THEN Handled(FALSE, InitialReturnCode, result.st, result.log, "miss",
                       <<>>, <<>>)
        ELSE IF new_entry.made
          THEN
            LET added == add(result.st, f, hash, new_entry.entry, build_files,
                             allow_hard_links)
                log == [result.log EXCEPT !.tr = Append(@, "add") \o added.log.tr]
            IN  IF added.exc # "none"
                  THEN Handled(FALSE, InitialReturnCode, added.st, log, "miss",
                               <<result.return_code>>, <<hash>>)
                  ELSE Handled(TRUE, result.return_code, added.st, log, "miss",
                               <<result.return_code>>, <<hash>>)
        ELSE Handled(TRUE, result.return_code, result.st, result.log, "miss",
                     <<result.return_code>>, <<>>)

\* program_wrapper_t::handle_command
handle_command(st, f, hash, build_files, conn, tool) ==
  IF f["w_hooks"] # "none" \/ f["w_lookup"] # "none"
    THEN Handled(FALSE, InitialReturnCode, st, NoLog, "none", <<>>, <<>>)
  ELSE
    LET cached_entry == WrapperLookup(st, hash)
        st1 == WrapperConnect(st, conn)
    IN  IF cached_entry.present
          THEN HandleHit(st1, f, cached_entry, build_files)
          ELSE HandleMiss(st1, f, hash, build_files, FALSE, tool)

\* The result of wrap_compiler_and_exit: the exit code of the process, what
\* handle_command did (hc) when it was called, the return codes of all the
\* runs of the tool.
Exited(exit_code, st, log, hc, runs) ==
  [exit_code |-> exit_code, st |-> st, log |-> log, hc |-> hc, runs |-> runs]

NotHandled(st) == Handled(FALSE, InitialReturnCode, st, NoLog, "uncalled", <<>>, <<>>)

\* wrap_compiler_and_exit
wrap_compiler_and_exit(st, f, can_handle, hash, build_files, conn, tools) ==
  IF f["w_find"] # "none" THEN Exited(1, st, NoLog, NotHandled(st), <<>>)
  ELSE
    LET hc == IF f["w_cache"] # "none" \/ ~can_handle
                THEN NotHandled(st)
                ELSE handle_command(st, f, hash, build_files, conn, tools[1])
        was_wrapped == hc.ret
    IN  IF was_wrapped THEN Exited(hc.rc, hc.st, hc.log, hc, hc.runs)
        ELSE
          LET result == RunTool(hc.st, f["w_fallback"], build_files,
                                tools[Len(hc.runs) + 1], hc.log)
          IN  IF result.exc # "none"
                THEN Exited(1, result.st, result.log, hc, hc.runs)
                ELSE Exited(result.return_code, result.st, result.log, hc,
                            Append(hc.runs, result.return_code))

WrapPoints ==
  {"w_find", "w_cache", "w_hooks", "w_lookup", "w_build_files", "l_get1",
   "l_get2", "w_run", "w_fallback"}

\* What may fail during one invocation: one step of the wrapper, or one of
\* the caches during add with any kind of exception.
WrapPlans ==
  {[NoFaults EXCEPT ![p] = "std"] : p \in WrapPoints} \cup Plans(AddPoints)

WrapConfigs ==
  {c \in Configs : c.max_remote_entry_size = 0 /\ ~c.compress /\ ~c.read_only_remote}

InitWrap ==
  /\ InitCaches
  /\ cfg \in WrapConfigs

Invoked(hash, build_files, f, can_handle, r) ==
  [op |-> "wrap", hash |-> hash, build_files |-> build_files, f |-> f,
   can_handle |-> can_handle, exit_code |-> r.exit_code, log |-> r.log,
   hc |-> [ret |-> r.hc.ret, looked |-> r.hc.looked, runs |-> r.hc.runs,
           adds |-> r.hc.adds],
   runs |-> r.runs, pre |-> State]

\* buildcache is invoked as a wrapper of the tool.
Invoke ==
  /\ last.op = "none"
  /\ \E hash \in EngineHashes, build_files \in ExpectedSets, f \in WrapPlans,
        can_handle \in BOOLEAN, conn \in BOOLEAN, tools \in ToolRuns :
       /\ ~can_handle => f = NoFaults /\ ~conn
       /\ conn => cfg.remote_up
       /\ \E r \in {wrap_compiler_and_exit(State, f, can_handle, hash, build_files,
                                          conn, tools)} :
            /\ Install(r.st)
            /\ last' = Invoked(hash, build_files, f, can_handle, r)
  /\ UNCHANGED <<cfg, prev, lockVars>>

\* The build directory is cleaned.
CleanOutputs ==
  /\ last.op = "none"
  /\ \E p \in {"pa", "pb"} :
       /\ fs[p].there
       /\ fs' = [fs EXCEPT ![p] = NoFile]
  /\ last' = [op |-> "write"]
  /\ UNCHANGED <<local, remote, connected, manifests, cfg, prev, lockVars>>

NextWrap == Invoke \/ CleanOutputs \/ Return

SpecWrap == InitWrap /\ [][NextWrap]_vars

-----------------------------------------------------------------------------
(* main.cpp: the command line. One run of the program is one step.         *)

\* The name of the BuildCache executable (excluding the file extension).
BUILDCACHE_EXE_NAME == "buildcache"

\* The names the program is started under: its own, with a directory or an
\* extension, and symbolic links named after a compiler.
ProgramPaths ==
  {"buildcache", "/usr/bin/buildcache", "buildcache.exe", "gcc", "/opt/bc/g++"}

\* file::get_file_part(path, false): the name of the file without the
\* directory and without the extension.
get_file_part(path) ==
  CASE path \in {"buildcache", "/usr/bin/buildcache", "buildcache.exe"}
         -> "buildcache"
    [] path = "/opt/bc/g++" -> "g++"
    [] OTHER -> path

\* What may follow the program name on the command line.
Arguments ==
  {"-C", "--clear", "-s", "--show-stats", "-V", "--version", "-M", "--max-size",
   "-h", "--help", "-c", "gcc", "0", "2k"}

\* arg_str[0] == '-'
StartsWithDash(arg) ==
  arg \in {"-C", "--clear", "-s", "--show-stats", "-V", "--version", "-M",
           "--max-size", "-h", "--help", "-c"}

\* What may follow the first argument.
FurtherArguments == {"0", "2k", "-c"}

MaxArgs == 2

\* argv: the program name and up to MaxArgs arguments.
ArgVectors ==
  {<<p>> : p \in ProgramPaths}
    \cup UNION {{<<p, a>> \o b : b \in [1..n -> FurtherArguments]} :
                 <<p, a, n>> \in ProgramPaths \X Arguments \X (0..(MaxArgs - 1))}

\* The tail of argv from its k-th element on (&argv[k - 1] with argc - k + 1).
ArgsFrom(argv, k) == SubSeq(argv, k, Len(argv))

compare_arg(arg, short_form, long_form) == (arg = short_form) \/ (arg = long_form)

\* The end of the process: its exit code, the caches and files it leaves,
\* what it logged and printed, and the command it wrapped, if any.
MainExit(exit_code, st, log, command) ==
  [exit_code |-> exit_code, st |-> st, log |-> log, command |-> command]

\* print_help
print_help(log) == Ev(log, "help")

\* clear_cache_and_exit: the local cache is emptied; an error is reported
\* and makes the exit code 1.
clear_cache_and_exit(st, fault) ==
  IF fault # "none"
    THEN MainExit(1, st, Ev(NoLog, "error"), <<>>)
    ELSE MainExit(0, [st EXCEPT !.local = [h \in Hashes |-> NoEntry]],
                  Ev(NoLog, "clear"), <<>>)

\* show_stats_and_exit
show_stats_and_exit(st, fault) ==
  IF fault # "none"
    THEN MainExit(1, st, Ev(NoLog, "error"), <<>>)
    ELSE MainExit(0, st, Ev(NoLog, "stats"), <<>>)

\* print_version_and_exit
print_version_and_exit(st) == MainExit(0, st, Ev(NoLog, "version"), <<>>)

\* set_max_size_and_exit: only a message is printed.
set_max_size_and_exit(st, size_arg) ==
  MainExit(0, st, Ev(NoLog, "max_size.not_implemented"), <<>>)

\* A main that takes no name for a symbolic link.
NeverSymlink(argv) == FALSE

\* The test of main for an invocation through a symbolic link.
IsSymlinkInvocation(argv) == get_file_part(argv[1]) # BUILDCACHE_EXE_NAME

\* wrap_compiler_and_exit(argc, argv) as main calls it: what the wrapper
\* makes of the command (w) is not decided by main.
WrapCommand(st, command, w) ==
  CHOOSE exit \in
    {MainExit(r.exit_code, r.st, Ev(r.log, "wrap"), command) :
       r \in {wrap_compiler_and_exit(st, w.f, w.can_handle, w.hash, w.build_files,
                                     FALSE, w.tools)}} : TRUE

\* main
main(st, argv, w) ==
  LET argc == Len(argv)
  IN  IF IsSymlinkInvocation(argv) THEN WrapCommand(st, ArgsFrom(argv, 1), w)
      ELSE IF argc < 2 THEN MainExit(1, st, print_help(NoLog), <<>>)
      ELSE
        LET arg_str == argv[2]
        IN  IF compare_arg(arg_str, "-C", "--clear")
              THEN clear_cache_and_exit(st, w.fault)
            ELSE IF compare_arg(arg_str, "-s", "--show-stats")
              THEN show_stats_and_exit(st, w.fault)
            ELSE IF compare_arg(arg_str, "-V", "--version")
              THEN print_version_and_exit(st)
            ELSE IF compare_arg(arg_str, "-M", "--max-size")
              THEN IF argc < 3
                     THEN MainExit(1, st, print_help(Ev(NoLog, "option.needs_argument")),
                                   <<>>)
                     ELSE set_max_size_and_exit(st, argv[3])
            ELSE IF compare_arg(arg_str, "-h", "--help")
              THEN MainExit(0, st, print_help(NoLog), <<>>)
            ELSE IF StartsWithDash(arg_str)
              THEN MainExit(1, st, print_help(Ev(NoLog, "option.invalid")), <<>>)
            ELSE WrapCommand(st, ArgsFrom(argv, 2), w)

\* What the wrappers and the tool do with a command, and whether the cache
\* object of an administrative command fails.
WrapInputs ==
  [f : {NoFaults, [NoFaults EXCEPT !["w_find"] = "std"]},
   can_handle : BOOLEAN, hash : EngineHashes,
   build_files : {e \in ExpectedSets : DOMAIN e = {"a"}},
   tools : {<<ToolSuccess(1), ToolSuccess(1)>>, <<ToolFailure, ToolFailure>>},
   fault : {"none", "std"}]

\* The budgets of the local cache that the configuration may hold (bytes;
\* 0 is unlimited).
CacheSizes == {0, 2000}

MainConfigs ==
  {c @@ [max_cache_size |-> s] :
     c \in {k \in WrapConfigs : k.max_local_entry_size = 0 /\ ~k.remote_up},
     s \in CacheSizes}

InitMain ==
  /\ InitCaches
  /\ cfg \in MainConfigs

\* The program is run with a command line.
RunMain ==
  /\ last.op = "none"
  /\ \E argv \in ArgVectors, w \in WrapInputs :
       /\ w.fault # "none" => w.f = NoFaults
       /\ \E r \in {main(State, argv, w)} :
            /\ Install(r.st)
            /\ last' = [op |-> "main", argv |-> argv, exit_code |-> r.exit_code,
                        log |-> r.log, command |-> r.command, pre |-> State]
  /\ UNCHANGED <<cfg, prev, lockVars>>

NextMain == RunMain \/ CleanOutputs \/ Return

SpecMain == InitMain /\ [][NextMain]_vars

-----------------------------------------------------------------------------
(* Processes that share the local cache directory: file_lock.hpp, and the  *)
(* install of an entry by the local cache (specification, sections 4.2 to  *)
(* 4.4 and 5). Every step of a process is one action.                      *)

NumProcs == 2
Procs == 1..NumProcs

\* The paths that locks are taken on: the shard of the entry, and another.
LockPaths == {"shard", "other"}

\* file_lock_t(): an empty (unlocked) lock object.
EmptyLock == [m_path |-> "", m_has_lock |-> FALSE]

\* file_lock_t(path, remote, blocking) once constructed.
FileLock(path, acquired) == [m_path |-> path, m_has_lock |-> acquired]

\* A has_lock() that does not look at the object.
has_lock_always(lock) == TRUE

\* file_lock_t::has_lock
has_lock(lock) == lock.m_has_lock

\* The named system object of a path is held by no lock object.
IsFree(path) == held[path] = 0

\* ~file_lock_t(): the system object is released if the lock was acquired.
Released(lock) ==
  IF lock.m_has_lock THEN [held EXCEPT ![lock.m_path] = 0] ELSE held

\* The entry that process p installs: two files of its own.
InsertedEntry == CacheEntry(<<"a", "b">>, "NONE", <<"o">>, <<>>, 0)
InsertedFile(p, id) == File(p)
InsertImage(p) ==
  Slot(InsertedEntry, [id \in Range(InsertedEntry.file_ids) |-> InsertedFile(p, id)])

\* The scratch directory of a process: the payload files written so far.
EmptyScratch == [files |-> <<>>, meta |-> FALSE]

\* An install that writes the payload files into the entry itself.
VisibleWhileWritingInPlace(slot, scratch) ==
  Slot(InsertedEntry, scratch.files)

\* What the store shows of an entry while a process writes its payload
\* files: they go to a scratch directory, the entry is not touched.
VisibleWhileWriting(slot, scratch) == slot

\* The hash that the processes install and read.
SharedHash == "h1"

\* got: the files a lookup has retrieved so far; path: the way the last
\* lookup_in_local_cache of the process was left.
IdleProc ==
  [pc |-> "idle", lock |-> EmptyLock, spare |-> EmptyLock,
   scratch |-> EmptyScratch, seen |-> NoEntry, got |-> <<>>, path |-> "none"]

InitLock ==
  /\ local = [h \in Hashes |-> NoEntry]
  /\ remote = [h \in Hashes |-> NoEntry]
  /\ connected = FALSE
  /\ manifests = [d \in DirectHashes |-> NoEntry]
  /\ fs = [p \in Paths |-> NoFile]
  /\ cfg \in DirectConfigs
  /\ last = Idle
  /\ prev = Idle
  /\ held = [path \in LockPaths |-> 0]
  /\ procs = [p \in Procs |-> IdleProc]

LockFrame == UNCHANGED <<remote, connected, manifests, fs, cfg, last, prev>>

\* file_lock_t(path, remote, blocking_t::NO): try to acquire.
TryLock(p) ==
  /\ procs[p].pc = "idle"
  /\ procs[p].lock = EmptyLock
  /\ \E path \in LockPaths :
       IF IsFree(path)
         THEN /\ held' = [held EXCEPT ![path] = p]
              /\ procs' = [procs EXCEPT ![p].lock = FileLock(path, TRUE)]
         ELSE /\ held' = held
              /\ procs' = [procs EXCEPT ![p].lock = FileLock(path, FALSE)]
  /\ UNCHANGED local
  /\ LockFrame

\* file_lock_t(path, remote, blocking_t::YES): block until acquired.
Lock(p) ==
  /\ procs[p].pc = "idle"
  /\ procs[p].lock = EmptyLock
  /\ \E path \in LockPaths :
       /\ IsFree(path)
       /\ held' = [held EXCEPT ![path] = p]
       /\ procs' = [procs EXCEPT ![p].lock = FileLock(path, TRUE)]
  /\ UNCHANGED local
  /\ LockFrame

\* operator=(file_lock_t&&): the lock moves to another object of the
\* process; what that object held is released.
MoveLock(p) ==
  /\ procs[p].pc = "idle"
  /\ procs[p].lock # EmptyLock
  /\ held' = Released(procs[p].spare)
  /\ procs' = [procs EXCEPT ![p].spare = procs[p].lock, ![p].lock = EmptyLock]
  /\ UNCHANGED local
  /\ LockFrame

\* ~file_lock_t() of a lock object that is not the scope of an install.
Unlock(p) ==
  /\ procs[p].pc = "idle"
  /\ \/ /\ procs[p].lock # EmptyLock
        /\ held' = Released(procs[p].lock)
        /\ procs' = [procs EXCEPT ![p].lock = EmptyLock]
     \/ /\ procs[p].spare # EmptyLock
        /\ held' = Released(procs[p].spare)
        /\ procs' = [procs EXCEPT ![p].spare = EmptyLock]
  /\ UNCHANGED local
  /\ LockFrame

\* local_cache_t::add begins: a scratch directory is made.
BeginInsert(p) ==
  /\ procs[p].pc = "idle"
  /\ procs[p].lock = EmptyLock
  /\ procs' = [procs EXCEPT ![p].pc = "writing", ![p].scratch = EmptyScratch,
                            ![p].path = "none"]
  /\ UNCHANGED <<local, held>>
  /\ LockFrame

\* The next payload file is written.
WriteScratch(p) ==
  /\ procs[p].pc = "writing"
  /\ Cardinality(DOMAIN procs[p].scratch.files) < Len(InsertedEntry.file_ids)
  /\ LET i == Cardinality(DOMAIN procs[p].scratch.files) + 1
         scratch == [procs[p].scratch EXCEPT
                       !.files = [x \in Range(SubSeq(InsertedEntry.file_ids, 1, i))
                                    |-> InsertedFile(p, x)]]
     IN  /\ procs' = [procs EXCEPT ![p].scratch = scratch]
         /\ local' = [local EXCEPT
                        ![SharedHash] = VisibleWhileWriting(local[SharedHash], scratch)]
  /\ UNCHANGED held
  /\ LockFrame

\* The metadata of the entry are written last.
WriteMeta(p) ==
  /\ procs[p].pc = "writing"
  /\ Cardinality(DOMAIN procs[p].scratch.files) = Len(InsertedEntry.file_ids)
  /\ procs' = [procs EXCEPT ![p].pc = "written", ![p].scratch.meta = TRUE]
  /\ UNCHANGED <<local, held>>
  /\ LockFrame

\* The lock of the shard is taken for the install (blocking).
LockForInstall(p) ==
  /\ procs[p].pc = "written"
  /\ IsFree("shard")
  /\ held' = [held EXCEPT !["shard"] = p]
  /\ procs' = [procs EXCEPT ![p].pc = "locked", ![p].lock = FileLock("shard", TRUE)]
  /\ UNCHANGED local
  /\ LockFrame

\* The scratch directory is renamed into the place of the entry.
RenameIntoPlace(p) ==
  /\ procs[p].pc = "locked"
  /\ local' = [local EXCEPT ![SharedHash] = Slot(InsertedEntry, procs[p].scratch.files)]
  /\ procs' = [procs EXCEPT ![p].pc = "installed", ![p].scratch = EmptyScratch]
  /\ UNCHANGED held
  /\ LockFrame

\* The install is over: its lock goes out of scope.
EndInsert(p) ==
  /\ procs[p].pc = "installed"
  /\ held' = Released(procs[p].lock)
  /\ procs' = [procs EXCEPT ![p].pc = "idle", ![p].lock = EmptyLock]
  /\ UNCHANGED local
  /\ LockFrame

\* The install fails before the rename: the scratch directory is removed
\* and the lock, if taken, goes out of scope.
AbortInsert(p) ==
  /\ procs[p].pc \in {"writing", "written", "locked"}
  /\ held' = Released(procs[p].lock)
  /\ procs' = [procs EXCEPT ![p].pc = "idle", ![p].lock = EmptyLock,
                            ![p].scratch = EmptyScratch]
  /\ UNCHANGED local
  /\ LockFrame

\* local_cache_t::lookup: the lock of the shard is taken and the entry, if
\* there is one, is handed to the reader together with the lock.
BeginRead(p) ==
  /\ procs[p].pc = "idle"
  /\ procs[p].lock = EmptyLock
  /\ IsFree("shard")
  /\ IF local[SharedHash].present
       THEN /\ held' = [held EXCEPT !["shard"] = p]
            /\ procs' = [procs EXCEPT ![p].pc = "reading",
                                      ![p].lock = FileLock("shard", TRUE),
                                      ![p].seen = local[SharedHash]]
       ELSE /\ held' = held
            /\ procs' = [procs EXCEPT ![p].pc = "reading", ![p].seen = NoEntry]
  /\ UNCHANGED local
  /\ LockFrame

\* The reader is done with the entry.
EndRead(p) ==
  /\ procs[p].pc = "reading"
  /\ held' = Released(procs[p].lock)
  /\ procs' = [procs EXCEPT ![p].pc = "idle", ![p].lock = EmptyLock,
                            ![p].seen = NoEntry]
  /\ UNCHANGED local
  /\ LockFrame

NextLock ==
  \E p \in Procs :
    \/ TryLock(p) \/ Lock(p) \/ MoveLock(p) \/ Unlock(p)
    \/ BeginInsert(p) \/ WriteScratch(p) \/ WriteMeta(p) \/ LockForInstall(p)
    \/ RenameIntoPlace(p) \/ EndInsert(p) \/ AbortInsert(p)
    \/ BeginRead(p) \/ EndRead(p)

SpecLock == InitLock /\ [][NextLock]_vars

-----------------------------------------------------------------------------
(* lookup_in_local_cache among other processes: the reader retrieves the   *)
(* files of the entry one by one while other processes install and evict.  *)

\* A lookup that keeps only the entry of the pair that the local cache
\* returns: the lock of the pair is destroyed at once.
DroppedAfterLookup(lock) == EmptyLock

\* auto lookup_result = m_local_cache.lookup(hash): the pair, and the lock in
\* it, lives until lookup_in_local_cache is left.
KeptInScope(lock) == lock

\* A scope that is not unwound when it is left by an exception. path is the
\* way lookup_in_local_cache is left: "miss" (return false), "mismatch" (the
\* exception of an unexpected file id), "get_file_failed" (an exception of
\* get_file) or "hit" (return true).
ReleasedUnlessThrown(lock, path) ==
  IF path \in {"mismatch", "get_file_failed"} THEN held ELSE Released(lock)

\* Leaving lookup_in_local_cache destroys lookup_result on every path.
ReleasedAtExit(lock, path) == Released(lock)

\* m_local_cache.lookup(hash): the lock of the shard is taken (blocking) and
\* returned with the entry; without an entry the function returns false.
LookupLocal(p) ==
  /\ procs[p].pc = "idle"
  /\ procs[p].lock = EmptyLock
  /\ IsFree("shard")
  /\ IF local[SharedHash].present
       THEN LET kept == KeptInScope(FileLock("shard", TRUE))
            IN  /\ held' = IF has_lock(kept)
                             THEN [held EXCEPT !["shard"] = p] ELSE held
                /\ procs' = [procs EXCEPT ![p].pc = "retrieving", ![p].lock = kept,
                                          ![p].seen = local[SharedHash],
                                          ![p].got = <<>>, ![p].path = "none"]
       ELSE /\ held' = [held EXCEPT !["shard"] = p]
            /\ procs' = [procs EXCEPT ![p].pc = "leaving",
                                      ![p].lock = FileLock("shard", TRUE),
                                      ![p].seen = NoEntry,
                                      ![p].got = <<>>, ![p].path = "miss"]
  /\ UNCHANGED local
  /\ LockFrame

\* One round of the loop over cached_entry.file_ids(): the file id is not
\* expected, or get_file fails, or the file is retrieved from the store as
\* it is now.
GetNextFile(p) ==
  /\ procs[p].pc = "retrieving"
  /\ Cardinality(DOMAIN procs[p].got) < Len(procs[p].seen.entry.file_ids)
  /\ LET file_id == procs[p].seen.entry.file_ids[Cardinality(DOMAIN procs[p].got) + 1]
         stored == local[SharedHash]
     IN  \/ procs' = [procs EXCEPT ![p].pc = "leaving", ![p].path = "mismatch"]
         \/ procs' = [procs EXCEPT ![p].pc = "leaving", ![p].path = "get_file_failed"]
         \/ /\ stored.present
            /\ file_id \in DOMAIN stored.files
            /\ procs' = [procs EXCEPT
                           ![p].got = [x \in DOMAIN procs[p].got \cup {file_id} |->
                                         IF x = file_id THEN stored.files[x]
                                                        ELSE procs[p].got[x]]]
  /\ UNCHANGED <<local, held>>
  /\ LockFrame

\* The loop is over: the streams are printed and true is returned.
FinishRead(p) ==
  /\ procs[p].pc = "retrieving"
  /\ Cardinality(DOMAIN procs[p].got) = Len(procs[p].seen.entry.file_ids)
  /\ procs' = [procs EXCEPT ![p].pc = "leaving", ![p].path = "hit"]
  /\ UNCHANGED <<local, held>>
  /\ LockFrame

\* lookup_in_local_cache is left.
LeaveLookup(p) ==
  /\ procs[p].pc = "leaving"
  /\ held' = ReleasedAtExit(procs[p].lock, procs[p].path)
  /\ procs' = [procs EXCEPT ![p].pc = "idle", ![p].lock = EmptyLock,
                            ![p].seen = NoEntry, ![p].got = <<>>]
  /\ UNCHANGED local
  /\ LockFrame

\* The eviction pass of another insert takes the lock of the shard.
BeginEvict(p) ==
  /\ procs[p].pc = "idle"
  /\ procs[p].lock = EmptyLock
  /\ IsFree("shard")
  /\ local[SharedHash].present
  /\ held' = [held EXCEPT !["shard"] = p]
  /\ procs' = [procs EXCEPT ![p].pc = "evicting", ![p].lock = FileLock("shard", TRUE),
                            ![p].path = "none"]
  /\ UNCHANGED local
  /\ LockFrame

\* The entry is removed.
RemoveEntry(p) ==
  /\ procs[p].pc = "evicting"
  /\ local[SharedHash].present
  /\ local' = [local EXCEPT ![SharedHash] = NoEntry]
  /\ UNCHANGED <<held, procs>>
  /\ LockFrame

\* The eviction pass is over: its lock goes out of scope.
EndEvict(p) ==
  /\ procs[p].pc = "evicting"
  /\ ~local[SharedHash].present
  /\ held' = Released(procs[p].lock)
  /\ procs' = [procs EXCEPT ![p].pc = "idle", ![p].lock = EmptyLock]
  /\ UNCHANGED local
  /\ LockFrame

NextRead ==
  \E p \in Procs :
    \/ LookupLocal(p) \/ GetNextFile(p) \/ FinishRead(p) \/ LeaveLookup(p)
    \/ BeginInsert(p) \/ WriteScratch(p) \/ WriteMeta(p) \/ LockForInstall(p)
    \/ RenameIntoPlace(p) \/ EndInsert(p) \/ AbortInsert(p)
    \/ BeginEvict(p) \/ RemoveEntry(p) \/ EndEvict(p)

SpecRead == InitLock /\ [][NextRead]_vars

\* The same processes under a scheduler: a process that holds the lock of
\* the shard goes on until it has released it (the loop of the lookup is
\* finite, an install renames and returns, an eviction removes and returns),
\* and a blocking acquisition is granted when the lock is free again and
\* again.
SpecReadFair ==
  /\ SpecRead
  /\ \A p \in Procs :
       /\ WF_vars(GetNextFile(p)) /\ WF_vars(FinishRead(p)) /\ WF_vars(LeaveLookup(p))
       /\ WF_vars(RenameIntoPlace(p)) /\ WF_vars(EndInsert(p))
       /\ WF_vars(RemoveEntry(p)) /\ WF_vars(EndEvict(p))
       /\ SF_vars(LockForInstall(p))

-----------------------------------------------------------------------------
(* Properties of the wrapped-tool mode.                                    *)

\* The entry that the invocation that has just exited found in the cache.
FoundEntry == last.pre.local[last.hash]

\* handle_command served the invocation from the cache.
ServedFromCache == last.hc.looked = "hit" /\ last.hc.ret

\* The launches of the tool during the invocation, in order.
Launches == SelectSeq(last.log.tr, LAMBDA e : e \in {"run", "run.failed"})

\* The cached files, stdout and stderr are where the tool would have put them.
Reproduced ==
  /\ last.log.out = FoundEntry.entry.std_out
  /\ last.log.err = FoundEntry.entry.std_err
  /\ \A id \in Range(FoundEntry.entry.file_ids) :
       /\ id \in DOMAIN last.build_files
       /\ fs[last.build_files[id].path] = FoundEntry.files[id]

\* C1: the exit code of a wrapped invocation is the exit code of the tool:
\* the cached return code when the invocation is served from the cache, the
\* return code of the last run of the tool when the tool was run; it is 1
\* only when the tool could not be found or launched.
C1_ExitCodeIsToolsExitCode ==
  last.op = "wrap"
    => /\ ServedFromCache
            => last.exit_code = FoundEntry.entry.return_code /\ last.runs = <<>>
       /\ (Launches # <<>> /\ Launches[Len(Launches)] = "run")
            => last.exit_code = last.runs[Len(last.runs)]
       /\ \/ ServedFromCache
          \/ Launches # <<>> /\ Launches[Len(Launches)] = "run"
          \/ /\ last.exit_code = 1
             /\ last.f["w_find"] # "none" \/ last.f["w_fallback"] # "none"

\* The tool is run a second time, after the cache failed to add the result
\* of the first run, and exits with another code than the first time.
C1_Witness ==
  /\ last.op = "wrap"
  /\ last.runs = <<0, 2>>
  /\ last.exit_code = 2

\* C2 (as stated): within one handle_command in which nothing fails, the
\* tool is run if and only if the lookup missed; on a hit the tool is not
\* run and the cached files, stdout, stderr and return code are reproduced;
\* on a miss where the tool exits with 0, add is called with the same hash.
C2_ToolRunIffMiss ==
  (last.op = "wrap" /\ last.hc.looked \in {"hit", "miss"} /\ last.f = NoFaults)
    => /\ last.hc.runs # <<>> <=> last.hc.looked = "miss"
       /\ last.hc.looked = "hit"
            => /\ last.hc.ret
               /\ last.exit_code = FoundEntry.entry.return_code
               /\ Reproduced
       /\ (last.hc.looked = "miss" /\ last.hc.runs = <<0>>)
            => last.hc.adds = <<last.hash>>

\* Every file id of the entry found is among the build files of the command.
BuildFilesMatch ==
  \A id \in Range(FoundEntry.entry.file_ids) : id \in DOMAIN last.build_files

\* C2 (amended): within one handle_command the tool is run only if the
\* lookup missed, and is run once when the lookup missed and neither
\* get_build_files nor the launch fails; on a hit handle_command does not run
\* the tool, and it reproduces the cached files, stdout, stderr and return
\* code if every cached file id is among the build files and no step fails;
\* otherwise it returns false, having printed nothing, and the caller runs
\* the tool. On a miss where the tool exits with 0, add is called once, with
\* the same hash.
C2_ToolRunOnlyOnMiss ==
  (last.op = "wrap" /\ last.hc.looked \in {"hit", "miss"})
    => /\ last.hc.runs # <<>> => last.hc.looked = "miss"
       /\ (/\ last.hc.looked = "miss"
           /\ last.f["w_build_files"] = "none"
           /\ last.f["w_run"] = "none") => Len(last.hc.runs) = 1
       /\ last.hc.looked = "hit"
            => /\ last.hc.ret <=>
                    /\ BuildFilesMatch
                    /\ \A p \in {"w_build_files", "l_get1", "l_get2"} :
                         last.f[p] # "none" => p = "l_get2" /\ Len(FoundEntry.entry.file_ids) < 2
               /\ last.hc.ret
                    => /\ last.exit_code = FoundEntry.entry.return_code
                       /\ last.runs = <<>>
                       /\ Reproduced
               /\ ~last.hc.ret
                    => /\ ~Has(last.log.tr, "stdout")
                       /\ Len(Launches) = 1
       /\ (last.hc.looked = "miss" /\ last.hc.runs = <<0>>)
            => last.hc.adds = <<last.hash>>

\* The entry found lists a file that is not among the build files: nothing
\* fails, yet handle_command gives up and the caller runs the tool.
C2_Witness ==
  /\ last.op = "wrap"
  /\ last.f = NoFaults
  /\ last.hc.looked = "hit"
  /\ ~BuildFilesMatch
  /\ ~last.hc.ret
  /\ last.runs = <<0>>

\* C3: no failed run is cached: every entry of either cache has return code
\* 0, an invocation served from the cache exits with 0, and an invocation
\* whose run of the tool exits with another code calls no add and leaves
\* both caches as they were.
C3_FailedRunsNeverCached ==
  /\ \A h \in Hashes :
       /\ local[h].present => local[h].entry.return_code = 0
       /\ remote[h].present => remote[h].entry.return_code = 0
  /\ last.op = "wrap"
       => /\ ServedFromCache => last.exit_code = 0
          /\ (last.hc.runs # <<>> /\ last.hc.runs[1] # 0)
               => last.hc.adds = <<>>
          /\ last.hc.adds = <<>>
               => local = last.pre.local /\ remote = last.pre.remote

\* The tool fails on a miss, after an invocation that went well.
C3_Witness ==
  /\ last.op = "wrap"
  /\ last.hc.looked = "miss"
  /\ last.hc.runs = <<2>>
  /\ last.exit_code = 2
  /\ last.pre.connected
  /\ prev.op = "wrap"

\* The remote cache raised an error during the add of the invocation.
RemoteAddRaised ==
  /\ last.op = "wrap"
  /\ last.hc.adds # <<>>
  /\ last.f["r_add"] # "none"
  /\ connected
  /\ ~cfg.read_only_remote

\* C6: an error of any kind raised by the remote cache during add is caught
\* and logged as a warning: add returns normally, so that handle_command
\* returns true and the exit code is that of the tool; the entry that was
\* put into the local cache stays there.
C6_RemoteAddErrorIsCaught ==
  RemoteAddRaised
    => /\ Has(last.log.tr, "warning")
       /\ last.hc.ret
       /\ last.runs = <<0>>
       /\ last.exit_code = 0
       /\ remote = last.pre.remote
       /\ Has(last.log.tr, "local.add")
            => /\ local[last.hash].present
               /\ local[last.hash].entry.return_code = 0
               /\ \A id \in DOMAIN last.build_files :
                    local[last.hash].files[id] = fs[last.build_files[id].path]

\* The remote cache throws something that is no std::exception while the
\* entry is added, after the local cache took the entry.
C6_Witness ==
  /\ RemoteAddRaised
  /\ last.f["r_add"] = "unknown"
  /\ Has(last.log.tr, "local.add")
  /\ local[last.hash].present
  /\ last.exit_code = 0

-----------------------------------------------------------------------------
(* Properties of the processes that share the local cache.                 *)

\* An entry as one install leaves it: its metadata and all its files, all
\* of the same process.
CompleteEntry(slot) == \E p \in Procs : slot = InsertImage(p)

\* The lock objects of all processes.
LockObjects ==
  {<<p, "lock">> : p \in Procs} \cup {<<p, "spare">> : p \in Procs}
LockObject(o) == IF o[2] = "lock" THEN procs[o[1]].lock ELSE procs[o[1]].spare

\* C9: installs of the same hash by several processes are atomic: in every
\* state the entry that the store shows, and the entry that a reader was
\* handed, is either absent or the complete image of one install.
C9_InstallIsAtomic ==
  /\ local[SharedHash].present => CompleteEntry(local[SharedHash])
  /\ \A p \in Procs :
       (procs[p].pc = "reading" /\ procs[p].seen.present)
         => CompleteEntry(procs[p].seen)

\* A reader holds the entry installed by one process while another process,
\* which has installed its own entry before, is half-way through writing the
\* files of a new install.
C9_Witness ==
  \E p, q \in Procs :
    /\ p # q
    /\ procs[p].pc = "reading"
    /\ procs[p].seen = InsertImage(p)
    /\ procs[q].pc = "writing"
    /\ Cardinality(DOMAIN procs[q].scratch.files) = 1

\* C10: of all the lock objects of all processes, at most one on each path
\* reports has_lock(), whether they were made blocking or not.
C10_MutualExclusion ==
  \A path \in LockPaths :
    Cardinality({o \in LockObjects :
                   LockObject(o).m_path = path /\ has_lock(LockObject(o))}) <= 1

\* A process holds the lock of a path in an object it was moved to, and
\* another process has tried to take the lock of the same path and failed.
C10_Witness ==
  \E p, q \in Procs :
    /\ p # q
    /\ procs[p].spare = FileLock("shard", TRUE)
    /\ has_lock(procs[p].spare)
    /\ procs[q].lock = FileLock("shard", FALSE)
    /\ ~has_lock(procs[q].lock)
    /\ held["shard"] = p

-----------------------------------------------------------------------------
(* Properties of the cache engine.                                         *)

\* The lookup that would follow the call that has just returned, with the
\* same hash and the same expected files, every collaborator working.
FollowingLookup ==
  lookup(State, NoFaults, last.hash, last.expected_files, FALSE,
         InitialReturnCode, NoLog)

\* The local insert step of the add that has just returned raised an error:
\* the size of the entry could not be computed, or the local cache failed.
LocalStepRaised ==
  \/ MissingRequired(last.pre, last.expected_files)
  \/ /\ (\/ get_total_entry_size(last.pre, last.entry, last.expected_files)
              < cfg.max_local_entry_size
         \/ cfg.max_local_entry_size <= 0)
     /\ \/ last.f["l_add"] # "none"
        \/ ~CanStore(last.pre, last.entry, last.expected_files)

\* C4 (as stated): lookup and lookup_direct never let an error out: whatever
\* fails during the call, the call returns normally to its caller.
C4_LookupsReturnNormally ==
  last.op \in {"lookup", "lookup_direct"} => last.exc = "none"

\* C5 (as stated): an error raised during the local insert step of add is
\* logged as a warning and only that insert is skipped; add returns normally.
C5_LocalInsertErrorIsSkipped ==
  (last.op = "add" /\ LocalStepRaised)
    => last.exc = "none" /\ last.ret /\ Has(last.log.tr, "warning")

\* C5 (amended): an error raised during the local insert step of add leaves
\* add as an exception; nothing was inserted in either cache, nothing was
\* logged and the remote insert step was not reached.
C5_LocalInsertErrorPropagates ==
  (last.op = "add" /\ LocalStepRaised)
    => /\ last.exc \in ExcKinds
       /\ State = last.pre
       /\ last.log.tr = <<>>

\* An add for which the remote insert was due fails in the local cache.
C5_Witness ==
  /\ last.op = "add"
  /\ last.f["l_add"] = "std"
  /\ last.pre.connected
  /\ last.exc = "std"
  /\ ~remote[last.hash].present

\* C7: a lookup that immediately follows an add that inserted entry E under
\* hash H, for the same H and expected files, is a hit with E's stdout,
\* stderr and return code, and leaves at the expected path of every file id
\* of E the content the file had when it was added.
C7_AddThenLookup ==
  (last.op = "add" /\ last.exc = "none" /\ Has(last.log.tr, "local.add"))
    => LET l == FollowingLookup
       IN  /\ l.exc = "none"
           /\ l.ret
           /\ l.rc = last.entry.return_code
           /\ l.log.out = last.entry.std_out
           /\ l.log.err = last.entry.std_err
           /\ \A id \in Range(last.entry.file_ids) :
                LET path == last.expected_files[id].path
                IN  l.st.fs[path].there /\ l.st.fs[path] = last.pre.fs[path]

\* A lookup hits right after an add has inserted a compressed entry of two
\* files with a non-zero return code.
C7_Witness ==
  /\ last.op = "lookup"
  /\ last.ret
  /\ prev.op = "add"
  /\ prev.ok
  /\ last.pre.local[last.hash].entry.comp = "ALL"
  /\ Len(last.pre.local[last.hash].entry.file_ids) = 2
  /\ last.rc = 2
  /\ last.log.tr[1] = "local.lookup"
  /\ Has(last.log.tr, "stdout")

\* C8 (as stated): a lookup leaves the set of entries of both caches as it
\* found it.
C8_LookupChangesNoEntry ==
  last.op = "lookup" => local = last.pre.local /\ remote = last.pre.remote

\* C8 (amended): a lookup leaves the remote cache as it found it, and the
\* local cache too except that a hit in the remote cache may put that entry
\* into the local cache under the hash looked up; a second lookup with the
\* same arguments returns what the first returned and changes nothing.
C8_LookupChangesOnlyByPromotion ==
  last.op = "lookup"
    => /\ remote = last.pre.remote
       /\ \A h \in Hashes \ {last.hash} : local[h] = last.pre.local[h]
       /\ local[last.hash] # last.pre.local[last.hash]
            => /\ last.ret
               /\ last.pre.remote[last.hash].present
               /\ local[last.hash].present
               /\ local[last.hash].entry
                    = PromotedEntry(last.pre.remote[last.hash])
       /\ LET l == FollowingLookup
          IN  /\ l.exc = last.exc
              /\ l.ret = last.ret
              /\ l.rc = last.rc
              /\ l.log.out = last.log.out
              /\ l.log.err = last.log.err
              /\ l.st = State

\* A lookup that hits in the remote cache puts the entry into the local
\* cache, and a lookup had come before it.
C8_Witness ==
  /\ last.op = "lookup"
  /\ last.ret
  /\ Has(last.log.tr, "local.add")
  /\ local # last.pre.local
  /\ last.rc = 2
  /\ prev.op = "lookup"

\* The events of a trace that are operations on the remote cache.
RemoteEvents ==
  {"remote.connect", "remote.lookup", "remote.get_file", "remote.add",
   "remote.add.failed", "stats.remote_miss", "stats.remote_hit"}

\* The last call was a lookup that did not hit in the local cache and hit in
\* the remote cache.
RemoteHit ==
  /\ last.op = "lookup"
  /\ last.exc = "none"
  /\ last.ret
  /\ Has(last.log.tr, "remote.lookup")

\* The local cache holds the entry found in the remote cache, compressed as
\* the local configuration says, and a lookup with the same arguments now
\* hits in the local cache without touching the remote cache.
Promoted ==
  /\ local[last.hash].present
  /\ local[last.hash].entry.comp = "ALL" <=> cfg.compress
  /\ local[last.hash].entry.comp \in {"ALL", "NONE"}
  /\ local[last.hash].entry.file_ids = last.pre.remote[last.hash].entry.file_ids
  /\ local[last.hash].entry.std_out = last.pre.remote[last.hash].entry.std_out
  /\ local[last.hash].entry.std_err = last.pre.remote[last.hash].entry.std_err
  /\ local[last.hash].entry.return_code
       = last.pre.remote[last.hash].entry.return_code
  /\ LET l == FollowingLookup
     IN  /\ l.exc = "none"
         /\ l.ret
         /\ l.rc = last.rc
         /\ l.log.tr[1] = "local.lookup"
         /\ \A i \in 1..Len(l.log.tr) : l.log.tr[i] \notin RemoteEvents

\* C11 (as stated): after a lookup of H that misses in the local cache and hits
\* in the remote cache, the local cache holds an entry for H, compressed (ALL)
\* exactly if the local compress setting is on, and the next lookup of H with
\* the same expected files hits in the local cache and does nothing on the
\* remote cache.
C11_RemoteHitIsPromoted == RemoteHit => Promoted

\* The entry the last lookup found in the remote cache is one the local cache
\* takes: no required expected file is missing and the size is below
\* max_local_entry_size (or that is 0).
PromotionAdmitted ==
  /\ \A id \in DOMAIN last.expected_files :
       last.expected_files[id].required => fs[last.expected_files[id].path].there
  /\ \/ cfg.max_local_entry_size = 0
     \/ get_total_entry_size(State, last.pre.remote[last.hash].entry,
                             last.expected_files) < cfg.max_local_entry_size

\* C11 (amended): after a lookup of H that misses in the local cache and hits
\* in the remote cache, if the entry is admitted to the local cache (its size
\* is below max_local_entry_size or that is 0, and no required expected file
\* is missing) then the local cache holds the entry under H, compressed (ALL)
\* exactly if the local compress setting is on, and the next lookup of H with
\* the same expected files hits in the local cache and does nothing on the
\* remote cache; if it is not admitted the lookup still hits, a warning or an
\* error is logged and the local cache is left as it was.
C11_AdmittedRemoteHitIsPromoted ==
  RemoteHit
    => /\ PromotionAdmitted => Promoted /\ Has(last.log.tr, "local.add")
       /\ ~PromotionAdmitted
            => /\ local = last.pre.local
               /\ Has(last.log.tr, "warning") \/ Has(last.log.tr, "error")
               /\ Has(FollowingLookup.log.tr, "remote.lookup")

\* A lookup has found in the remote cache an entry that the local cache did
\* not have, and has stored it uncompressed under a size limit.
C11_Witness ==
  /\ RemoteHit
  /\ ~last.pre.local[last.hash].present
  /\ PromotionAdmitted
  /\ Has(last.log.tr, "local.add")
  /\ ~cfg.compress
  /\ local[last.hash].entry.comp = "NONE"
  /\ last.pre.remote[last.hash].entry.comp = "ALL"
  /\ cfg.max_local_entry_size = EntrySizeLimit

\* What the expected file of a file id weighed when the last call was made:
\* its size if the id is expected and the file existed, and nothing otherwise.
ExpectedSize(id) ==
  IF id \in DOMAIN last.expected_files
       /\ last.pre.fs[last.expected_files[id].path].there
    THEN FileSize(last.pre.fs[last.expected_files[id].path])
    ELSE 0

\* The size of the entry of the last call: the lengths of stdout and stderr
\* and the sizes of the expected files that existed.
EntrySize ==
  Len(last.entry.std_out) + Len(last.entry.std_err)
    + ExpectedSize("a") + ExpectedSize("b")

\* A lookup in the local cache alone, with the arguments of the last call.
LocalLookupIn(st) ==
  lookup_in_local_cache(st, NoFaults, last.hash, last.expected_files, FALSE,
                        InitialReturnCode, NoLog)

RemoteInsertAttempted ==
  Has(last.log.tr, "remote.add") \/ Has(last.log.tr, "remote.add.failed")

\* C13: an add in which the local step raised nothing attempts an insert into
\* the remote cache exactly if the remote cache is connected, read_only_remote
\* is off and max_remote_entry_size is 0 or the size of the entry is below it,
\* whether the local cache admitted the entry or rejected it for its size;
\* the entry that reaches the remote cache has compression mode ALL and is
\* otherwise the entry given to add, and without an attempt the remote cache
\* is left as it was.
C13_RemoteAdmission ==
  (last.op = "add" /\ last.exc = "none")
    => LET due == /\ last.pre.connected
                  /\ ~cfg.read_only_remote
                  /\ \/ cfg.max_remote_entry_size = 0
                     \/ EntrySize < cfg.max_remote_entry_size
       IN  /\ RemoteInsertAttempted <=> due
           /\ Has(last.log.tr, "remote.add")
                => /\ remote[last.hash].present
                   /\ remote[last.hash].entry
                        = [last.entry EXCEPT !.comp = "ALL"]
           /\ ~Has(last.log.tr, "remote.add") => remote = last.pre.remote

\* An add has sent an uncompressed entry to the remote cache that the local
\* cache had rejected for its size.
C13_Witness ==
  /\ last.op = "add"
  /\ last.exc = "none"
  /\ last.entry.comp = "NONE"
  /\ Has(last.log.tr, "remote.add")
  /\ ~Has(last.log.tr, "local.add")
  /\ last.log.tr[1] = "warning"
  /\ remote[last.hash].entry.comp = "ALL"
  /\ local = last.pre.local

\* An expected file of the last call, required or optional as asked, did not
\* exist when the call was made.
MissingExpected(required) ==
  \E id \in DOMAIN last.expected_files :
    /\ last.expected_files[id].required = required
    /\ ~last.pre.fs[last.expected_files[id].path].there

\* Every file the entry of the last call lists was expected and existed.
EntryFilesExist ==
  \A id \in Range(last.entry.file_ids) :
    /\ id \in DOMAIN last.expected_files
    /\ last.pre.fs[last.expected_files[id].path].there

\* C14: an add with a required expected file missing ends in an error before
\* anything is inserted: neither cache, no manifest and no file is changed
\* and nothing is logged. With only optional expected files missing the size
\* computation raises nothing and counts nothing for them, and the insert
\* goes ahead: if the files listed by the entry exist, add returns normally
\* and inserts locally exactly as the size without the missing files admits.
C14_MissingExpectedFiles ==
  last.op = "add"
    => /\ MissingExpected(TRUE)
            => /\ last.exc \in ExcKinds
               /\ State = last.pre
               /\ last.log.tr = <<>>
       /\ ~MissingExpected(TRUE) => last.exc # "std"
       /\ (~MissingExpected(TRUE) /\ MissingExpected(FALSE) /\ EntryFilesExist)
            => /\ last.exc = "none"
               /\ Has(last.log.tr, "local.add")
                    <=> \/ cfg.max_local_entry_size = 0
                        \/ EntrySize < cfg.max_local_entry_size
               /\ Has(last.log.tr, "local.add") => local[last.hash].present

\* An add with a required expected file missing has ended in an error, with
\* a connected and writable remote cache, and neither cache has an entry.
C14_Witness ==
  /\ last.op = "add"
  /\ MissingExpected(TRUE)
  /\ last.pre.connected
  /\ ~cfg.read_only_remote
  /\ last.exc = "std"
  /\ ~local[last.hash].present
  /\ ~remote[last.hash].present

\* An add with an optional expected file missing has inserted the entry.
OptionalMissingInserted ==
  /\ last.op = "add"
  /\ MissingExpected(FALSE)
  /\ last.exc = "none"
  /\ Has(last.log.tr, "local.add")
  /\ cfg.max_local_entry_size = EntrySizeLimit

\* The entry that a cache holds for the hash of the last call lists a file id
\* that the call does not expect.
Unexpected(slot) ==
  /\ slot.present
  /\ \E id \in Range(slot.entry.file_ids) : id \notin DOMAIN last.expected_files

MismatchMissed ==
  /\ last.op = "lookup"
  /\ Unexpected(last.pre.local[last.hash])
  /\ last.log.tr[Len(last.log.tr)] = "stats.remote_miss"
  /\ ~last.ret

\* The contents an implicit input file may have, or none when it is removed.
InputFiles == {NoFile} \cup {File(c) : c \in Contents}

\* A lookup_direct without faults made in this state.
DirectLookupIn(st, direct_hash, expected_files) ==
  lookup_direct(st, NoFaults, direct_hash, expected_files, FALSE,
                InitialReturnCode, NoLog)

\* The manifest of a direct hash lists a file that no longer has the hash
\* recorded for it.
Stale(st, direct_hash) ==
  /\ st.manifests[direct_hash].present
  /\ \E p \in DOMAIN st.manifests[direct_hash].files :
       FileHash(st.fs[p]) # st.manifests[direct_hash].files[p]

Matching(st, direct_hash) ==
  st.manifests[direct_hash].present /\ ~Stale(st, direct_hash)

\* C17: a lookup_direct that returns and for which there is no matching
\* manifest counts one direct miss and no direct hit, returns a miss, makes
\* no lookup in the local or the remote cache, and leaves return_code, every
\* file and both caches as they were.
C17_DirectMiss ==
  (last.op = "lookup_direct" /\ last.exc = "none"
     /\ ~Matching(last.pre, last.hash))
    => /\ ~last.ret
       /\ Count(last.log.tr, "stats.direct_miss") = 1
       /\ Count(last.log.tr, "stats.direct_hit") = 0
       /\ last.log.tr = <<"stats.direct_miss">>
       /\ last.log.out = <<>> /\ last.log.err = <<>>
       /\ last.rc = InitialReturnCode
       /\ State = last.pre

\* A lookup_direct without a manifest has counted a direct miss and returned
\* a miss although the local cache has an entry that a lookup would find.
C17_Witness ==
  /\ last.op = "lookup_direct"
  /\ ~last.pre.manifests[last.hash].present
  /\ \E h \in EngineHashes : last.pre.local[h].present
  /\ last.exc = "none"
  /\ ~last.ret
  /\ last.log.tr = <<"stats.direct_miss">>

\* C18: a lookup_direct for which there is a matching manifest, and whose
\* count of the direct hit does not fail, counts one direct hit and no direct
\* miss, and its result (exception, hit or miss, return_code, printed output,
\* files and caches) is that of the lookup of the preprocessor hash recorded
\* in the manifest; and every lookup_direct that returns has counted exactly
\* one of a direct hit and a direct miss.
C18_DirectHit ==
  /\ (last.op = "lookup_direct" /\ Matching(last.pre, last.hash)
        /\ last.f["l_lookup_direct"] = "none" /\ last.f["st_dhit"] = "none")
       => LET r == lookup(last.pre, last.f, last.pre.manifests[last.hash].hash,
                          last.expected_files, FALSE, InitialReturnCode, NoLog)
          IN  /\ Count(last.log.tr, "stats.direct_hit") = 1
              /\ Count(last.log.tr, "stats.direct_miss") = 0
              /\ last.log.tr = <<"stats.direct_hit">> \o r.log.tr
              /\ last.exc = r.exc
              /\ last.ret = r.ret
              /\ last.rc = r.rc
              /\ last.log.out = r.log.out
              /\ last.log.err = r.log.err
              /\ State = r.st
  /\ (last.op = "lookup_direct" /\ last.exc = "none")
       => Count(last.log.tr, "stats.direct_hit")
            + Count(last.log.tr, "stats.direct_miss") = 1

\* A lookup_direct has found a manifest that lists an unchanged input file
\* and has hit on the entry of the recorded hash, whose return code is 2.
C18_Witness ==
  /\ last.op = "lookup_direct"
  /\ Matching(last.pre, last.hash)
  /\ DOMAIN last.pre.manifests[last.hash].files # {}
  /\ Has(last.log.tr, "stats.direct_hit")
  /\ last.exc = "none"
  /\ last.ret
  /\ last.rc = 2

\* A lookup_direct has found a matching manifest and missed on the recorded
\* hash.
DirectHitThenMiss ==
  /\ last.op = "lookup_direct"
  /\ Has(last.log.tr, "stats.direct_hit")
  /\ last.exc = "none"
  /\ ~last.ret

\* What main logs when it takes an argument for an option of its own.
AdminEvents ==
  {"help", "clear", "stats", "version", "max_size.not_implemented",
   "option.needs_argument", "option.invalid", "error"}

\* C19: when the file part of argv[0] is not "buildcache", main takes no
\* argument for an option of its own (nothing is cleared, shown, set or
\* rejected, no help is printed) and hands the whole argv, argv[0] included,
\* to wrap_compiler_and_exit as the command.
C19_SymlinkWrapsWholeArgv ==
  (last.op = "main" /\ get_file_part(last.argv[1]) # "buildcache")
    => /\ last.command = last.argv
       /\ last.log.tr[Len(last.log.tr)] = "wrap"
       /\ \A i \in 1..Len(last.log.tr) : last.log.tr[i] \notin AdminEvents
       /\ \A h \in Hashes : last.pre.local[h].present => local[h].present

\* The program was started through a link named gcc with --clear as its
\* first argument while the local cache had an entry, and the entry is
\* still there.
C19_Witness ==
  /\ last.op = "main"
  /\ last.argv[1] = "gcc"
  /\ Len(last.argv) >= 2
  /\ last.argv[2] = "--clear"
  /\ last.command = last.argv
  /\ last.pre.local["h1"].present
  /\ local["h1"].present

\* The same command line under the program's own name clears the cache.
ClearedByOption ==
  /\ last.op = "main"
  /\ last.argv[1] = "/usr/bin/buildcache"
  /\ Len(last.argv) >= 2
  /\ last.argv[2] = "--clear"
  /\ last.pre.local["h1"].present
  /\ ~local["h1"].present
  /\ last.exit_code = 0

\* The number of bytes that a SIZE argument stands for.
ParsedSize(size_arg) == IF size_arg = "2k" THEN 2000 ELSE 0

\* The program was run under its own name with -M or --max-size.
MaxSizeOption ==
  /\ last.op = "main"
  /\ get_file_part(last.argv[1]) = "buildcache"
  /\ Len(last.argv) >= 2
  /\ last.argv[2] \in {"-M", "--max-size"}

\* C20: when '--max-size SIZE' (or '-M SIZE') has exited with 0,
\* max_cache_size is SIZE; without SIZE the command exits with 1 and changes
\* nothing.
C20_MaxSizeIsSet ==
  MaxSizeOption
    => IF Len(last.argv) >= 3
         THEN (last.exit_code = 0 /\ last.argv[3] \in {"0", "2k"})
                => cfg.max_cache_size = ParsedSize(last.argv[3])
         ELSE last.exit_code = 1 /\ State = last.pre

\* What the code does for '--max-size': with SIZE it prints a message, exits
\* with 0 and changes nothing; without SIZE it exits with 1 and changes
\* nothing.
MaxSizeChangesNothing ==
  MaxSizeOption
    => /\ State = last.pre
       /\ last.exit_code = (IF Len(last.argv) >= 3 THEN 0 ELSE 1)
       /\ Len(last.argv) >= 3 => last.log.tr = <<"max_size.not_implemented">>

\* The events of a trace that are operations of the local tier of a lookup.
LocalTierEvents == {"local.lookup", "local.get_file"}

\* The position of the first operation on the remote cache in the trace of
\* the last call, or 0 if there is none.
FirstRemote ==
  IF \E i \in 1..Len(last.log.tr) : last.log.tr[i] \in RemoteEvents
    THEN CHOOSE i \in 1..Len(last.log.tr) :
           /\ last.log.tr[i] \in RemoteEvents
           /\ \A j \in 1..(i - 1) : last.log.tr[j] \notin RemoteEvents
    ELSE 0

\* The local cache holds an entry for the hash of the last call that lists
\* only expected files, and no step of the local tier was made to fail.
LocalTierSound ==
  /\ last.pre.local[last.hash].present
  /\ ~Unexpected(last.pre.local[last.hash])
  /\ last.f["l_lookup"] = "none"
  /\ last.f["l_get1"] = "none"
  /\ last.f["l_get2"] = "none"

\* C21: within one lookup every operation on the remote cache (connect,
\* lookup, get_file) comes after all operations of the local tier, and by
\* then the local tier has missed (no entry for the hash) or its error has
\* been logged; a lookup that hits in the local cache performs no operation
\* on the remote cache.
C21_LocalBeforeRemote ==
  last.op = "lookup"
    => /\ \A i, j \in 1..Len(last.log.tr) :
            (last.log.tr[i] \in RemoteEvents /\ last.log.tr[j] \in LocalTierEvents)
              => j < i
       /\ FirstRemote > 0
            => /\ last.log.tr[FirstRemote] = "remote.connect"
               /\ \/ /\ ~last.pre.local[last.hash].present
                     /\ SubSeq(last.log.tr, 1, FirstRemote - 1) = <<"local.lookup">>
                  \/ /\ FirstRemote > 1
                     /\ last.log.tr[FirstRemote - 1] = "error"
       /\ LocalTierSound
            => /\ last.exc = "none"
               /\ last.ret
               /\ FirstRemote = 0
               /\ connected = last.pre.connected

\* A lookup has found the entry in the local cache, has failed to get its
\* first file, has logged the error and has then hit in the remote cache.
C21_Witness ==
  /\ last.op = "lookup"
  /\ last.pre.local[last.hash].present
  /\ last.f["l_get1"] = "runtime"
  /\ last.log.tr[1] = "local.lookup"
  /\ last.log.tr[2] = "error"
  /\ FirstRemote = 3
  /\ Has(last.log.tr, "remote.get_file")
  /\ last.ret

\* A lookup has hit in the local cache while the remote cache also had the
\* entry.
LocalHitBeforeRemote ==
  /\ last.op = "lookup"
  /\ LocalTierSound
  /\ last.pre.remote[last.hash].present
  /\ cfg.remote_up
  /\ last.ret

\* The last call was a lookup that returned a miss.
ReturnedMiss == last.op = "lookup" /\ last.exc = "none" /\ ~last.ret

\* C22 (as stated): every lookup that returns a miss has counted exactly one
\* remote miss, whatever the reason the remote step did not hit.
C22_MissCountsRemoteMiss ==
  ReturnedMiss => Count(last.log.tr, "stats.remote_miss") = 1

\* The remote cache was asked for the hash of the last call and had no entry
\* for it.
RemoteHadNone ==
  /\ connected
  /\ last.f["r_connect"] = "none"
  /\ last.f["r_lookup"] = "none"
  /\ Has(last.log.tr, "remote.lookup")
  /\ ~last.pre.remote[last.hash].present

\* C22 (amended): a lookup that returns a miss has counted a remote miss at
\* most once: once if the remote cache was connected and its lookup found no
\* entry for the hash (and the update of the counter did not fail), and not
\* at all if the remote step did not hit for another reason (no remote cache
\* configured or reachable, an error of the remote lookup, an unexpected file
\* id or a failed get_file).
C22_OnlyAbsentEntryCountsRemoteMiss ==
  ReturnedMiss
    => /\ Count(last.log.tr, "stats.remote_miss")
            = (IF RemoteHadNone /\ last.f["st_rmiss"] = "none" THEN 1 ELSE 0)
       /\ Count(last.log.tr, "stats.remote_hit") = 0

\* A lookup has failed in the local tier, has found nothing in the remote
\* cache, has counted one remote miss and has returned a miss.
C22_Witness ==
  /\ ReturnedMiss
  /\ RemoteHadNone
  /\ last.pre.local[last.hash].present
  /\ Has(last.log.tr, "error")
  /\ last.log.tr[Len(last.log.tr)] = "stats.remote_miss"
  /\ Count(last.log.tr, "stats.remote_miss") = 1

\* A lookup has returned a miss after an error of the remote tier without
\* counting a remote miss.
RemoteErrorUncounted ==
  /\ ReturnedMiss
  /\ connected
  /\ last.pre.remote[last.hash].present
  /\ Has(last.log.tr, "remote.lookup")
  /\ Count(last.log.tr, "stats.remote_miss") = 0

\* C23 (as stated): every lookup that returns a hit served from the remote
\* cache has counted exactly one remote hit, also when the promotion into
\* the local cache was skipped for the size of the entry or failed.
C23_RemoteHitIsCounted ==
  RemoteHit => Count(last.log.tr, "stats.remote_hit") = 1

\* C23 (amended): a lookup that returns a hit served from the remote cache
\* has counted a remote hit at most once: once if the entry was put into the
\* local cache (it was admitted, the insert did not fail and neither did the
\* update of the counter), and not at all if the promotion was skipped for
\* the size of the entry or failed with an error; it has counted no remote
\* miss.
C23_OnlyPromotedRemoteHitIsCounted ==
  RemoteHit
    => /\ Count(last.log.tr, "stats.remote_hit")
            = (IF /\ PromotionAdmitted
                  /\ last.f["l_add"] = "none"
                  /\ last.f["st_rhit"] = "none"
                 THEN 1 ELSE 0)
       /\ Count(last.log.tr, "stats.remote_hit") = 1
            => /\ Has(last.log.tr, "local.add")
               /\ local[last.hash].present
       /\ Count(last.log.tr, "stats.remote_miss") = 0

\* A lookup has hit in the remote cache, has skipped the promotion because
\* the entry is as large as max_local_entry_size allows no more, and has
\* counted no remote hit.
C23_Witness ==
  /\ RemoteHit
  /\ \A id \in DOMAIN last.expected_files :
       fs[last.expected_files[id].path].there
  /\ ~PromotionAdmitted
  /\ Has(last.log.tr, "warning")
  /\ Count(last.log.tr, "stats.remote_hit") = 0

\* A lookup has hit in the remote cache, has put the entry into the local
\* cache and has counted one remote hit.
PromotedHitCounted ==
  /\ RemoteHit
  /\ Has(last.log.tr, "local.add")
  /\ Count(last.log.tr, "stats.remote_hit") = 1

\* A lookup has hit in the remote cache and the promotion has failed with an
\* error.
PromotionFailed ==
  /\ RemoteHit
  /\ last.log.tr[Len(last.log.tr)] = "error"
  /\ Count(last.log.tr, "stats.remote_hit") = 0

-----------------------------------------------------------------------------
(* Readers among installs and evictions.                                   *)

\* Process p has found the entry and has not left lookup_in_local_cache.
Retrieving(p) == procs[p].pc = "retrieving"

\* C24: while a process is between the local lookup that found the entry
\* and its last get_file, it holds the lock of the shard, the entry of the
\* store is the one it found, and every file it has retrieved is a file of
\* that entry: no install and no eviction removes or replaces a file under
\* a reader.
C24_ReaderHoldsShardLock ==
  \A p \in Procs :
    Retrieving(p) =>
      /\ held["shard"] = p
      /\ has_lock(procs[p].lock)
      /\ local[SharedHash] = procs[p].seen
      /\ \A id \in DOMAIN procs[p].got : procs[p].got[id] = procs[p].seen.files[id]

\* A reader has retrieved the first file of the entry that another process
\* installed, while that process has the next entry ready and waits for the
\* lock, and a third party or the same is kept out.
C24_Witness ==
  \E p, q \in Procs :
    /\ p # q
    /\ Retrieving(p)
    /\ procs[p].seen = InsertImage(q)
    /\ DOMAIN procs[p].got = {"a"}
    /\ procs[q].pc = "written"

\* Process p is inside lookup_in_local_cache with the lock of its lookup.
InLookup(p) == procs[p].pc \in {"retrieving", "leaving"}

\* Process p has an entry ready and blocks on the lock of the shard.
Waiting(p) == procs[p].pc = "written"

-----------------------------------------------------------------------------
(* The number of runs of the tool in one wrapped invocation.               *)

\* C26: in one wrapped invocation the tool is run at most once, whatever
\* the outcome of handle_command (hit, miss, an error during the lookup, an
\* error during add after the tool ran): the fallback never runs the command
\* a second time.
C26_ToolRunsAtMostOnce ==
  last.op = "wrap" => Len(last.runs) <= 1

\* handle_command ran the tool, the insert of the result raised an error,
\* and the fallback ran the tool again.
RanAgainAfterFailedAdd ==
  /\ last.op = "wrap"
  /\ last.hc.runs = <<0>>
  /\ ~last.hc.ret
  /\ last.f["l_add"] = "runtime"
  /\ Len(last.runs) = 2
  /\ Launches = <<"run", "run">>

\* The tool runs twice only in that case: handle_command ran it with exit
\* code 0 and then did not return true.
SecondRunOnlyAfterFailedAdd ==
  (last.op = "wrap" /\ Len(last.runs) > 1)
    => /\ Len(last.runs) = 2
       /\ last.hc.runs = <<0>>
       /\ last.hc.adds # <<>>
       /\ ~last.hc.ret
       /\ \E p \in AddPoints : last.f[p] # "none"

-----------------------------------------------------------------------------
(* What a lookup that misses leaves behind.                                *)

\* The target paths of the expected files of the call.
TargetPaths == {last.expected_files[id].path : id \in DOMAIN last.expected_files}

\* C27: a lookup that returns a miss has written no target file: every
\* expected target path has the content it had before the call, also when
\* the entry has an unexpected file id or a get_file failed part-way.
C27_MissWritesNothing ==
  ReturnedMiss => \A p \in TargetPaths : fs[p] = last.pre.fs[p]

\* The number of files that the call has retrieved to their target paths.
RetrievedFiles ==
  Count(last.log.tr, "local.get_file") + Count(last.log.tr, "remote.get_file")

\* The content that get_file gives the target of file id: the file of the
\* entry that the local or the remote cache had for the hash, decompressed
\* when the entry is compressed.
CachedContents(id) ==
  {IF slot.entry.comp = "ALL" THEN Decompress(slot.files[id]) ELSE slot.files[id] :
     slot \in {s \in {last.pre.local[last.hash], last.pre.remote[last.hash]} :
                 s.present /\ id \in DOMAIN s.files}}

\* C27 as the code has it: a lookup that returns a miss without having
\* retrieved a file has written nothing; a lookup that misses after an
\* unexpected file id or a failed get_file leaves every expected target path
\* with the content it had before the call or with the cached file that was
\* retrieved to it, and at most as many target paths changed as files were
\* retrieved; no other path is written.
C27_MissKeepsRetrievedFiles ==
  ReturnedMiss =>
    /\ \A p \in Paths \ TargetPaths : fs[p] = last.pre.fs[p]
    /\ \A id \in DOMAIN last.expected_files :
         LET p == last.expected_files[id].path
         IN  fs[p] = last.pre.fs[p] \/ fs[p] \in CachedContents(id)
    /\ Cardinality({p \in TargetPaths : fs[p] # last.pre.fs[p]}) <= RetrievedFiles

\* A lookup found an entry of two files in the local cache, retrieved the
\* first one over an absent target, failed to get the second one and missed:
\* the first target stays written.
C27_Witness ==
  /\ ReturnedMiss
  /\ last.pre.local[last.hash].present
  /\ last.f["l_get2"] # "none"
  /\ DOMAIN last.expected_files = {"a", "b"}
  /\ ~last.pre.fs[last.expected_files["a"].path].there
  /\ fs[last.expected_files["a"].path] \in CachedContents("a")
  /\ fs[last.expected_files["b"].path] = last.pre.fs[last.expected_files["b"].path]

\* A lookup found nothing in either cache and missed: no file is written.
MissWithoutEntry ==
  /\ ReturnedMiss
  /\ ~last.pre.local[last.hash].present
  /\ ~last.pre.remote[last.hash].present
  /\ fs = last.pre.fs

-----------------------------------------------------------------------------
(* The streams and the return code of a lookup.                            *)

\* The entry that a lookup that hit was served from.
ServedEntry ==
  IF Has(last.log.tr, "remote.lookup") THEN last.pre.remote[last.hash].entry
                                        ELSE last.pre.local[last.hash].entry

\* The positions of the trace of the call at which e is logged.
Positions(e) == {i \in 1..Len(last.log.tr) : last.log.tr[i] = e}

\* C28: a lookup that returns a hit prints the cached stdout and stderr
\* exactly once and sets return_code to the return code of the entry, after
\* all files of the entry were retrieved; a lookup that returns a miss
\* prints nothing and leaves return_code as it was, also when the local
\* cache failed and the remote cache was tried after it.
C28_StreamsOnlyOnHitOnce ==
  (last.op = "lookup" /\ last.exc = "none") =>
    IF last.ret
      THEN /\ Cardinality(Positions("stdout")) = 1
           /\ Cardinality(Positions("stderr")) = 1
           /\ last.log.out = ServedEntry.std_out
           /\ last.log.err = ServedEntry.std_err
           /\ last.rc = ServedEntry.return_code
           /\ \A i \in Positions("stdout") \cup Positions("stderr") :
                /\ \A j \in Positions("local.get_file") \cup Positions("remote.get_file") :
                     j < i
                /\ Cardinality({j \in 1..(i - 1) :
                                  last.log.tr[j] = IF Has(last.log.tr, "remote.lookup")
                                                     THEN "remote.get_file"
                                                     ELSE "local.get_file"})
                     = Len(ServedEntry.file_ids)
      ELSE /\ Positions("stdout") = {}
           /\ Positions("stderr") = {}
           /\ last.log.out = <<>>
           /\ last.log.err = <<>>
           /\ last.rc = InitialReturnCode

\* The local cache had the entry and retrieved its first file, the second
\* get_file failed; the remote cache had the entry too and served it: its
\* streams are printed once, and its return code, not the initial one, is
\* set.
C28_Witness ==
  /\ last.op = "lookup"
  /\ last.exc = "none"
  /\ last.ret
  /\ last.pre.local[last.hash].present
  /\ Has(last.log.tr, "local.get_file")
  /\ Has(last.log.tr, "error")
  /\ Has(last.log.tr, "remote.get_file")
  /\ Count(last.log.tr, "stdout") = 1
  /\ last.log.out # <<>>
  /\ last.rc # InitialReturnCode

\* The local cache failed part-way, the remote cache was tried and failed
\* too: the lookup misses and has printed nothing.
SilentMissAfterBothTiers ==
  /\ ReturnedMiss
  /\ Has(last.log.tr, "local.get_file")
  /\ Has(last.log.tr, "remote.get_file")
  /\ Count(last.log.tr, "error") = 2
  /\ last.log.out = <<>>
  /\ last.rc = InitialReturnCode

-----------------------------------------------------------------------------
(* add_direct: all or nothing.                                             *)

\* An implicit input file of the call did not exist when it was made.
InputUnreadable ==
  \E i \in 1..Len(last.implicit_input_files) :
    ~last.pre.fs[last.implicit_input_files[i]].there

\* The manifest that the call was asked to store: the given preprocessor
\* hash and the content hash of every implicit input file.
AskedManifest ==
  Manifest(last.preprocessor_hash,
           [p \in Range(last.implicit_input_files) |-> FileHash(last.pre.fs[p])])

\* Exactly the manifest of the direct hash of the call was stored.
StoredAsked ==
  manifests = [last.pre.manifests EXCEPT ![last.hash] = AskedManifest]

\* Hashing an implicit input file failed: the file does not exist, or
\* reading it raised an error.
HashingFailed ==
  \/ InputUnreadable
  \/ last.f["hash_file"] # "none" /\ last.implicit_input_files # <<>>

\* A step that the call came to raised an exception of one of the kinds.
RaisedIn(kinds) ==
  \/ last.f["hash_file"] \in kinds /\ last.implicit_input_files # <<>>
  \/ last.f["l_add_direct"] \in kinds

\* C29 (as stated): add_direct never fails its caller; if hashing an
\* implicit input file fails no manifest is written or overwritten, and
\* otherwise exactly one manifest is stored, which records the given
\* preprocessor hash and the content hash of every implicit input file.
C29_AddDirectAllOrNothing ==
  last.op = "add_direct"
    => /\ last.exc = "none"
       /\ IF HashingFailed THEN manifests = last.pre.manifests ELSE StoredAsked

\* C29 as the code has it: add_direct stores the asked manifest or leaves
\* the manifests as they were, and nothing else changes. It absorbs
\* std::runtime_error only: when hashing an input or the store of the
\* manifest raises one (a file that does not exist), nothing is stored and
\* the call returns; an exception of another type leaves the call, with
\* nothing stored; when nothing fails the asked manifest is stored and an
\* older manifest of the direct hash is replaced.
C29_AddDirectStoresOrLeaves ==
  last.op = "add_direct"
    => /\ manifests = last.pre.manifests \/ StoredAsked
       /\ local = last.pre.local /\ remote = last.pre.remote /\ fs = last.pre.fs
       /\ last.exc # "runtime"
       /\ last.exc # "none"
            => /\ manifests = last.pre.manifests
               /\ RaisedIn({"std", "unknown"})
       /\ (InputUnreadable \/ RaisedIn({"runtime"}))
            => manifests = last.pre.manifests
       /\ ~RaisedIn({"std", "unknown"}) => last.exc = "none"
       /\ (~InputUnreadable /\ ~RaisedIn({"runtime", "std", "unknown"}))
            => StoredAsked /\ last.exc = "none"

\* An add_direct whose input file does not exist has returned and has left
\* the manifest that an earlier add_direct stored for the direct hash.
C29_Witness ==
  /\ last.op = "add_direct"
  /\ last.f = NoFaults
  /\ InputUnreadable
  /\ last.exc = "none"
  /\ last.pre.manifests[last.hash].present
  /\ DOMAIN last.pre.manifests[last.hash].files = {"hdr"}
  /\ manifests = last.pre.manifests
  /\ Has(last.log.tr, "error")

\* An add_direct replaced the manifest of the direct hash by the asked one.
ManifestReplaced ==
  /\ last.op = "add_direct"
  /\ last.pre.manifests[last.hash].present
  /\ last.pre.manifests[last.hash] # AskedManifest
  /\ last.implicit_input_files # <<>>
  /\ StoredAsked

\* The store of the manifest raised an error that is not a runtime_error:
\* the call did not return.
AddDirectRaised ==
  /\ last.op = "add_direct"
  /\ last.exc \in {"std", "unknown"}

====
